---- MODULE Spec2Model ----
(***************************************************************************)
(* A model of neo2-llkh (src/src/main.cpp): the low-level keyboard hook    *)
(* keyevent with its modifier/lock state machine, the layout tables built  *)
(* by buildLayout, the Settings record with sanitize, and the synthetic    *)
(* input emitted through keybd_event / SendInput.                          *)
(*                                                                         *)
(* Characters are their UTF-16 code units (TCHAR), virtual keys and scan   *)
(* codes are the numbers the code compares against.                        *)
(***************************************************************************)
EXTENDS Integers, Sequences, FiniteSets, TLC

----------------------------------------------------------------------------
\* Program constants (main.cpp:20-52 and the Win32 values the code names).

MAPPING_LEN == 103
LEVEL_COUNT == 6
SCANCODE_TAB_KEY == 15
SCANCODE_CAPSLOCK_KEY == 58
SCANCODE_LOWER_THAN_KEY == 86
SCANCODE_QUOTE_KEY == 40
SCANCODE_HASH_KEY == 43
SCANCODE_RETURN_KEY == 28
SCANCODE_PAUSE_KEY == 69
SCANCODE_LCONTROL_KEY == 29

LEVEL_1 == 0
LEVEL_2 == 1
LEVEL_3 == 2
LEVEL_4 == 3
LEVEL_5 == 4
LEVEL_6 == 5

VK_BACK == 8
VK_TAB == 9
VK_RETURN == 13
VK_SHIFT == 16
VK_CONTROL == 17
VK_MENU == 18
VK_CAPITAL == 20
VK_ESCAPE == 27
VK_SPACE == 32
VK_PRIOR == 33
VK_NEXT == 34
VK_END == 35
VK_HOME == 36
VK_LEFT == 37
VK_UP == 38
VK_RIGHT == 39
VK_DOWN == 40
VK_INSERT == 45
VK_DELETE == 46
VK_LWIN == 91
VK_RWIN == 92
VK_LSHIFT == 160
VK_RSHIFT == 161
VK_LCONTROL == 162
VK_RCONTROL == 163
VK_LMENU == 164
VK_RMENU == 165

\* dwFlags of keybd_event / SendInput and flags of KBDLLHOOKSTRUCT
KEYEVENTF_EXTENDEDKEY == 1
KEYEVENTF_KEYUP == 2
KEYEVENTF_UNICODE == 4
LLKHF_EXTENDED == 1
LLKHF_INJECTED == 16
LLKHF_UP == 128

Levels == LEVEL_1 .. LEVEL_6
Slots == 0 .. (MAPPING_LEN - 1)

----------------------------------------------------------------------------
\* Settings (main.cpp:65-104).  debugWindow only opens a console and is left out.

LayoutNames == {"neo", "adnw", "adnwzjf", "bone", "koy", "kou", "vou"}

DefaultSettings ==
    [ layout |-> "neo",
      quoteAsMod3R |-> FALSE, returnAsMod3R |-> FALSE, tabAsMod4L |-> FALSE,
      capsLockEnabled |-> FALSE, shiftLockEnabled |-> FALSE,
      level4LockEnabled |-> FALSE, qwertzForShortcuts |-> FALSE,
      swapLeftCtrlAndLeftAlt |-> FALSE, swapLeftCtrlLeftAltAndLeftWin |-> FALSE,
      supportLevels5and6 |-> FALSE,
      capsLockAsEscape |-> FALSE, mod3RAsReturn |-> FALSE, mod4LAsTab |-> FALSE,
      scanCodeMod3L |-> SCANCODE_CAPSLOCK_KEY,
      scanCodeMod3R |-> SCANCODE_HASH_KEY,
      scanCodeMod4L |-> SCANCODE_LOWER_THAN_KEY ]

\* A faulty sanitize that lets shiftLockEnabled stand next to capsLockEnabled
sanitizeKeepingShiftLock(s) ==
    LET b == IF s.swapLeftCtrlLeftAltAndLeftWin
             THEN [s EXCEPT !.swapLeftCtrlAndLeftAlt = FALSE] ELSE s
        c == IF b.quoteAsMod3R THEN [b EXCEPT !.scanCodeMod3R = SCANCODE_QUOTE_KEY]
             ELSE IF b.returnAsMod3R THEN [b EXCEPT !.scanCodeMod3R = SCANCODE_RETURN_KEY]
             ELSE b
    IN  IF c.tabAsMod4L THEN [c EXCEPT !.scanCodeMod4L = SCANCODE_TAB_KEY] ELSE c

\* Settings::sanitize
sanitize(s) ==
    LET a == IF s.capsLockEnabled THEN [s EXCEPT !.shiftLockEnabled = FALSE] ELSE s
        b == IF a.swapLeftCtrlLeftAltAndLeftWin
             THEN [a EXCEPT !.swapLeftCtrlAndLeftAlt = FALSE] ELSE a
        c == IF b.quoteAsMod3R THEN [b EXCEPT !.scanCodeMod3R = SCANCODE_QUOTE_KEY]
             ELSE IF b.returnAsMod3R THEN [b EXCEPT !.scanCodeMod3R = SCANCODE_RETURN_KEY]
             ELSE b
    IN  IF c.tabAsMod4L THEN [c EXCEPT !.scanCodeMod4L = SCANCODE_TAB_KEY] ELSE c

----------------------------------------------------------------------------
\* Layout tables (main.cpp:32-61, 180-343).

\* KeyMapping::mapping = {} : every slot empty
EmptyMapping == [i \in Slots |-> 0]

\* KeyMapping::fillAtLiteral<O>(p): mapping[O + i] = p[i]
fillAtLiteral(mapping, O, p) ==
    [i \in Slots |-> IF O <= i /\ i < O + Len(p) THEN p[i - O + 1] ELSE mapping[i]]

\* lowerLetters: a-z, a-umlaut, o-umlaut, u-umlaut, sharp s, full stop, comma
lowerLetters ==
    <<97, 98, 99, 100, 101, 102, 103, 104, 105, 106, 107, 108, 109, 110, 111, 112, 113, 114, 115, 116, 117, 118, 119, 120, 121, 122, 228, 246, 252, 223, 46, 44>>

\* ArrayView::findIndex: first index holding f, or -1
findIndex(f) ==
    IF \E i \in 1..Len(lowerLetters) : lowerLetters[i] = f
    THEN (CHOOSE i \in 1..Len(lowerLetters) :
            /\ lowerLetters[i] = f
            /\ \A j \in 1..(i - 1) : lowerLetters[j] # f) - 1
    ELSE -1

\* mapLevelsLetters(base, mappingTableOutput, newChars)
mapLevelsLetters(base, mappingTableOutput, newChars) ==
    [i \in Slots |->
        LET c == findIndex(base[i])
        IN  IF c # -1 THEN newChars[c + 1] ELSE mappingTableOutput[i]]

\* level 2 alphabet: A-Z, the capital umlauts, capital sharp s, bullet, en dash
upperLetters ==
    <<65, 66, 67, 68, 69, 70, 71, 72, 73, 74, 75, 76, 77, 78, 79, 80, 81, 82, 83, 84, 85, 86, 87, 88, 89, 90, 196, 214, 220, 7838, 8226, 8211>>
\* level 5 alphabet (greek), main.cpp:286
level5Letters ==
    <<945, 946, 967, 948, 949, 966, 947, 968, 953, 952, 954, 955, 956, 957, 959, 960, 981, 961, 963, 964, 117, 118, 969, 958, 965, 950, 951, 1013, 252, 962, 977, 1009>>
\* level 6 alphabet (mathematical symbols), main.cpp:287
level6Letters ==
    <<8704, 8656, 8450, 916, 8707, 934, 915, 936, 8747, 920, 10799, 923, 8660, 8469, 8712, 928, 8474, 8477, 931, 8706, 8834, 8730, 937, 926, 8711, 8484, 8501, 8745, 8746, 8728, 8614, 8658>>

\* buildLayout, "same for all layouts": level 1 (digit row, dead key)
commonLevel1 ==
    LET m0 == EmptyMapping
        m1 == fillAtLiteral(m0, 2,
                  <<49, 50, 51, 52, 53, 54, 55, 56, 57, 48, 45, 96>>)
        m2 == fillAtLiteral(m1, 27,
                  <<180>>)
    IN  m2

\* level 2 overlay
commonLevel2 ==
    LET m0 == EmptyMapping
        m1 == fillAtLiteral(m0, 41,
                  <<780>>)
        m2 == fillAtLiteral(m1, 2,
                  <<176, 167, 8467, 187, 171, 36, 8364, 8222, 8220, 8221, 8212, 807>>)
        m3 == fillAtLiteral(m2, 27,
                  <<126>>)
    IN  m3

\* level 3 overlay
commonLevel3 ==
    LET m0 == EmptyMapping
        m1 == fillAtLiteral(m0, 41,
                  <<94>>)
        m2 == fillAtLiteral(m1, 2,
                  <<185, 178, 179, 8250, 8249, 162, 165, 8218, 8216, 8217, 8212, 778>>)
        m3 == fillAtLiteral(m2, 16,
                  <<8230, 95, 91, 93, 94, 33, 60, 62, 61, 38, 383, 823>>)
        m4 == fillAtLiteral(m3, 30,
                  <<92, 47, 123, 125, 42, 63, 40, 41, 45, 58, 64>>)
        m5 == fillAtLiteral(m4, 44,
                  <<35, 36, 124, 126, 96, 43, 37, 34, 39, 59>>)
    IN  m5

\* level 4 overlay
commonLevel4 ==
    LET m0 == EmptyMapping
        m1 == fillAtLiteral(m0, 41,
                  <<775>>)
        m2 == fillAtLiteral(m1, 2,
                  <<170, 186, 8470, 8942, 183, 163, 164, 48, 47, 42, 45, 168>>)
        m3 == fillAtLiteral(m2, 21,
                  <<161, 55, 56, 57, 43, 8722, 733>>)
        m4 == fillAtLiteral(m3, 35,
                  <<191, 52, 53, 54, 44, 46>>)
        m5 == fillAtLiteral(m4, 49,
                  <<58, 49, 50, 51, 59>>)
    IN  m5

\* the letter rows of adnw on level 1
adnwLevel1(m) ==
    LET m0 == m
        m1 == fillAtLiteral(m0, 16,
                  <<107, 117, 252, 46, 228, 118, 103, 99, 108, 106, 102, 180>>)
        m2 == fillAtLiteral(m1, 30,
                  <<104, 105, 101, 97, 111, 100, 116, 114, 110, 115, 223>>)
        m3 == fillAtLiteral(m2, 44,
                  <<120, 121, 246, 44, 113, 98, 112, 119, 109, 122>>)
    IN  m3

\* the letter rows of adnwzjf on level 1
adnwzjfLevel1(m) ==
    LET m0 == m
        m1 == fillAtLiteral(m0, 16,
                  <<107, 117, 252, 46, 228, 118, 103, 99, 108, 223, 122, 180>>)
        m2 == fillAtLiteral(m1, 30,
                  <<104, 105, 101, 97, 111, 100, 116, 114, 110, 115, 102>>)
        m3 == fillAtLiteral(m2, 44,
                  <<120, 121, 246, 44, 113, 98, 112, 119, 109, 106>>)
    IN  m3

\* the letter rows of bone on level 1
boneLevel1(m) ==
    LET m0 == m
        m1 == fillAtLiteral(m0, 16,
                  <<106, 100, 117, 97, 120, 112, 104, 108, 109, 119, 223, 180>>)
        m2 == fillAtLiteral(m1, 30,
                  <<99, 116, 105, 101, 111, 98, 110, 114, 115, 103, 113>>)
        m3 == fillAtLiteral(m2, 44,
                  <<102, 118, 252, 228, 246, 121, 122, 44, 46, 107>>)
    IN  m3

\* the letter rows of koy on level 1
koyLevel1(m) ==
    LET m0 == m
        m1 == fillAtLiteral(m0, 16,
                  <<107, 46, 111, 44, 121, 118, 103, 99, 108, 223, 122, 180>>)
        m2 == fillAtLiteral(m1, 30,
                  <<104, 97, 101, 105, 117, 100, 116, 114, 110, 115, 102>>)
        m3 == fillAtLiteral(m2, 44,
                  <<120, 113, 228, 252, 246, 98, 112, 119, 109, 106>>)
    IN  m3

\* the letter rows of kou on level 1
kouLevel1(m) ==
    LET m0 == m
        m1 == fillAtLiteral(m0, 16,
                  <<107, 46, 111, 117, 228, 113, 103, 99, 108, 102, 106, 180>>)
        m2 == fillAtLiteral(m1, 30,
                  <<104, 97, 101, 105, 121, 98, 116, 114, 110, 115, 223>>)
        m3 == fillAtLiteral(m2, 44,
                  <<122, 120, 44, 252, 246, 112, 100, 119, 109, 118>>)
    IN  m3

\* the letter rows of vou on level 1
vouLevel1(m) ==
    LET m0 == m
        m1 == fillAtLiteral(m0, 16,
                  <<118, 46, 111, 117, 228, 113, 103, 108, 104, 102, 106, 180>>)
        m2 == fillAtLiteral(m1, 30,
                  <<99, 97, 101, 105, 121, 98, 116, 114, 110, 115, 223>>)
        m3 == fillAtLiteral(m2, 44,
                  <<122, 120, 44, 252, 246, 112, 100, 119, 109, 107>>)
    IN  m3

\* the letter rows of neo on level 1
neoLevel1(m) ==
    LET m0 == m
        m1 == fillAtLiteral(m0, 16,
                  <<120, 118, 108, 99, 119, 107, 104, 103, 102, 113, 223, 180>>)
        m2 == fillAtLiteral(m1, 30,
                  <<117, 105, 97, 101, 111, 115, 110, 114, 116, 100, 121>>)
        m3 == fillAtLiteral(m2, 44,
                  <<252, 246, 228, 112, 122, 98, 109, 44, 46, 106>>)
    IN  m3

\* kou and vou: level 3 punctuation
kouLevel3(m) ==
    LET m0 == m
        m1 == fillAtLiteral(m0, 16,
                  <<64, 37, 123, 125, 94, 33, 60, 62, 61, 38, 8364, 823>>)
        m2 == fillAtLiteral(m1, 30,
                  <<124, 96, 40, 41, 42, 63, 47, 58, 45, 95, 8594>>)
        m3 == fillAtLiteral(m2, 44,
                  <<35, 91, 93, 126, 36, 43, 34, 39, 92, 59>>)
    IN  m3

\* kou and vou: level 4 block
kouLevel4(m) ==
    LET m0 == m
        m1 == fillAtLiteral(m0, 4,
                  <<10004, 10008, 183, 163, 164, 48, 47, 42, 45, 168>>)
        m2 == fillAtLiteral(m1, 21,
                  <<58, 55, 56, 57, 43, 8722, 733>>)
        m3 == fillAtLiteral(m2, 35,
                  <<45, 52, 53, 54, 44, 59>>)
        m4 == fillAtLiteral(m3, 49,
                  <<95, 49, 50, 51, 46>>)
    IN  m4

\* number row and dead keys of level 5
extraLevel5(m) ==
    LET m0 == m
        m1 == fillAtLiteral(m0, 41,
                  <<777>>)
        m2 == fillAtLiteral(m1, 2,
                  <<8321, 8322, 8323, 9794, 9792, 9893, 1008, 10216, 10217, 8320, 63, 8190>>)
        m3 == fillAtLiteral(m2, 27,
                  <<8127>>)
    IN  m3

\* number row and dead keys of level 6
extraLevel6(m) ==
    LET m0 == m
        m1 == fillAtLiteral(m0, 41,
                  <<803>>)
        m2 == fillAtLiteral(m1, 2,
                  <<172, 8744, 8743, 8869, 8737, 8741, 8594, 8734, 8733, 8960, 63, 772>>)
        m3 == fillAtLiteral(m2, 27,
                  <<728>>)
    IN  m3

\* buildLayout: level 1 of the chosen layout; an unknown name gets neo (main.cpp:226-262)
buildLevel1(layout) ==
    CASE layout = "adnw"    -> adnwLevel1(commonLevel1)
      [] layout = "adnwzjf" -> adnwzjfLevel1(commonLevel1)
      [] layout = "bone"    -> boneLevel1(commonLevel1)
      [] layout = "koy"     -> koyLevel1(commonLevel1)
      [] layout = "kou"     -> kouLevel1(commonLevel1)
      [] layout = "vou"     -> vouLevel1(commonLevel1)
      [] OTHER              -> neoLevel1(commonLevel1)

\* buildLayout: levels 2, 5 and 6 follow the letters of level 1; kou and vou
\* overlay levels 3 and 4 (main.cpp:264-297)
deriveLevels(l1, is_kou_or_vue) ==
    [lv \in Levels |->
        CASE lv = LEVEL_1 -> l1
          [] lv = LEVEL_2 -> mapLevelsLetters(l1, commonLevel2, upperLetters)
          [] lv = LEVEL_3 -> IF is_kou_or_vue THEN kouLevel3(commonLevel3) ELSE commonLevel3
          [] lv = LEVEL_4 -> IF is_kou_or_vue THEN kouLevel4(commonLevel4) ELSE commonLevel4
          [] lv = LEVEL_5 ->
               [extraLevel5(mapLevelsLetters(l1, EmptyMapping, level5Letters))
                  EXCEPT ![57] = 160]
          [] OTHER ->
               [extraLevel6(mapLevelsLetters(l1, EmptyMapping, level6Letters))
                  EXCEPT ![57] = 8239]]

\* A faulty copy that only copies the level-1 symbol
copyQuoteToHashLevel1Only(levels, quoteAsMod3R) ==
    IF quoteAsMod3R
    THEN [levels EXCEPT ![LEVEL_1][SCANCODE_HASH_KEY] = levels[LEVEL_1][SCANCODE_QUOTE_KEY]]
    ELSE levels

\* quote/a-umlaut as right level 3 modifier: copy its symbol to the # key
copyQuoteToHash(levels, quoteAsMod3R) ==
    IF quoteAsMod3R
    THEN [lv \in Levels |->
            [levels[lv] EXCEPT ![SCANCODE_HASH_KEY] = levels[lv][SCANCODE_QUOTE_KEY]]]
    ELSE levels

\* buildLayout: the six level tables
buildLevels(settings) ==
    [copyQuoteToHash(deriveLevels(buildLevel1(settings.layout),
                                  settings.layout \in {"kou", "vou"}),
                     settings.quoteAsMod3R)
        EXCEPT ![LEVEL_2][8] = 8364]

\* buildLayout: layout.level4_specials
buildLevel4Specials(is_kou_or_vue) ==
    LET a == [[i \in Slots |-> 0] EXCEPT ![16] = VK_PRIOR]
        b == IF is_kou_or_vue
             THEN [a EXCEPT ![17] = VK_NEXT, ![18] = VK_UP,
                            ![19] = VK_BACK, ![20] = VK_DELETE]
             ELSE [a EXCEPT ![17] = VK_BACK, ![18] = VK_UP,
                            ![19] = VK_DELETE, ![20] = VK_NEXT]
        c == [b EXCEPT ![30] = VK_HOME, ![31] = VK_LEFT, ![32] = VK_DOWN,
                       ![33] = VK_RIGHT, ![34] = VK_END]
        d == IF is_kou_or_vue
             THEN [c EXCEPT ![44] = VK_INSERT, ![45] = VK_TAB,
                            ![46] = VK_RETURN, ![47] = VK_ESCAPE]
             ELSE [c EXCEPT ![44] = VK_ESCAPE, ![45] = VK_TAB,
                            ![46] = VK_INSERT, ![47] = VK_RETURN]
    IN  [d EXCEPT ![57] = 48]

\* A faulty buildLayout that takes every name it does not know for kou
buildLayoutUnknownAsKou(settings) ==
    [ levels |-> buildLevels(settings),
      is_kou_or_vue |-> settings.layout \notin {"neo", "adnw", "adnwzjf", "bone", "koy"},
      level4_specials |->
          buildLevel4Specials(settings.layout \notin {"neo", "adnw", "adnwzjf", "bone", "koy"}) ]

\* buildLayout(settings) -> Layout
buildLayout(settings) ==
    [ levels |-> buildLevels(settings),
      is_kou_or_vue |-> settings.layout \in {"kou", "vou"},
      level4_specials |-> buildLevel4Specials(settings.layout \in {"kou", "vou"}) ]

\* The layouts WinMain can install (g_layout = buildLayout(g_settings)), built once.
\* Only layout and quoteAsMod3R are read by buildLayout.
UnknownLayout == "qwertz"
\* identifiers no branch of buildLayout knows: a foreign name, the empty string
\* g_settings.layout holds when no settings.ini is found, and "NEO" (wcscmp tells
\* upper case from lower case)
UnknownLayouts == {UnknownLayout, "", "NEO"}
AllLayoutNames == LayoutNames \cup UnknownLayouts
BuiltLayouts ==
    [name \in AllLayoutNames |->
        [q \in BOOLEAN |->
            buildLayout([DefaultSettings EXCEPT !.layout = name, !.quoteAsMod3R = q])]]

----------------------------------------------------------------------------
\* The physical keys an event can come from: scan code, virtual key and the
\* extended bit the low-level hook reports for them.

KeyTable ==
    [ LShift    |-> [scanCode |-> 42,  vkCode |-> VK_LSHIFT,   extended |-> FALSE],
      RShift    |-> [scanCode |-> 54,  vkCode |-> VK_RSHIFT,   extended |-> FALSE],
      Caps      |-> [scanCode |-> SCANCODE_CAPSLOCK_KEY, vkCode |-> VK_CAPITAL, extended |-> FALSE],
      Hash      |-> [scanCode |-> SCANCODE_HASH_KEY,     vkCode |-> 191, extended |-> FALSE],
      Quote     |-> [scanCode |-> SCANCODE_QUOTE_KEY,    vkCode |-> 222, extended |-> FALSE],
      Return    |-> [scanCode |-> SCANCODE_RETURN_KEY,   vkCode |-> VK_RETURN, extended |-> FALSE],
      Less      |-> [scanCode |-> SCANCODE_LOWER_THAN_KEY, vkCode |-> 226, extended |-> FALSE],
      Tab       |-> [scanCode |-> SCANCODE_TAB_KEY,      vkCode |-> VK_TAB, extended |-> FALSE],
      RAlt      |-> [scanCode |-> 56,  vkCode |-> VK_RMENU,    extended |-> TRUE],
      LAlt      |-> [scanCode |-> 56,  vkCode |-> VK_LMENU,    extended |-> FALSE],
      LCtrl     |-> [scanCode |-> SCANCODE_LCONTROL_KEY, vkCode |-> VK_LCONTROL, extended |-> FALSE],
      AltGrCtrl |-> [scanCode |-> 541, vkCode |-> VK_LCONTROL, extended |-> FALSE],
      RCtrl     |-> [scanCode |-> 29,  vkCode |-> VK_RCONTROL, extended |-> TRUE],
      LWin      |-> [scanCode |-> 91,  vkCode |-> VK_LWIN,     extended |-> TRUE],
      RWin      |-> [scanCode |-> 92,  vkCode |-> VK_RWIN,     extended |-> TRUE],
      Pause     |-> [scanCode |-> SCANCODE_PAUSE_KEY, vkCode |-> 19, extended |-> FALSE],
      A         |-> [scanCode |-> 30,  vkCode |-> 65,  extended |-> FALSE],
      S         |-> [scanCode |-> 31,  vkCode |-> 83,  extended |-> FALSE],
      T         |-> [scanCode |-> 20,  vkCode |-> 84,  extended |-> FALSE],
      B         |-> [scanCode |-> 48,  vkCode |-> 66,  extended |-> FALSE],
      Digit1    |-> [scanCode |-> 2,   vkCode |-> 49,  extended |-> FALSE],
      Acute     |-> [scanCode |-> 13,  vkCode |-> 221, extended |-> FALSE],
      Plus      |-> [scanCode |-> 27,  vkCode |-> 187, extended |-> FALSE],
      Circumflex|-> [scanCode |-> 41,  vkCode |-> 220, extended |-> FALSE],
      Space     |-> [scanCode |-> 57,  vkCode |-> VK_SPACE, extended |-> FALSE],
      F1        |-> [scanCode |-> 59,  vkCode |-> 112, extended |-> FALSE],
      Num7      |-> [scanCode |-> 71,  vkCode |-> 103, extended |-> FALSE] ]

AllKeys == DOMAIN KeyTable

\* A key event as the hook receives it: wparam (up or down) and KBDLLHOOKSTRUCT.
KeyEvent(key, up, injected) == [key |-> key, up |-> up, injected |-> injected]

keyInfoOf(e) ==
    [ scanCode |-> KeyTable[e.key].scanCode,
      vkCode   |-> KeyTable[e.key].vkCode,
      flags    |-> (IF KeyTable[e.key].extended THEN LLKHF_EXTENDED ELSE 0)
                 + (IF e.injected THEN LLKHF_INJECTED ELSE 0)
                 + (IF e.up THEN LLKHF_UP ELSE 0) ]

\* flags & bit, for a single-bit mask
HasFlag(flags, bit) == (flags \div bit) % 2 = 1

----------------------------------------------------------------------------
\* State (main.cpp:106-134)

InitialState ==
    [ bypassMode |-> FALSE,
      shiftPressed |-> FALSE, mod3Pressed |-> FALSE, mod4Pressed |-> FALSE,
      shiftLeftPressed |-> FALSE, shiftRightPressed |-> FALSE,
      shiftLockActive |-> FALSE, capsLockActive |-> FALSE,
      level3modLeftPressed |-> FALSE, level3modRightPressed |-> FALSE,
      level3modLeftAndNoOtherKeyPressed |-> FALSE,
      level3modRightAndNoOtherKeyPressed |-> FALSE,
      level4modLeftAndNoOtherKeyPressed |-> FALSE,
      level4modLeftPressed |-> FALSE, level4modRightPressed |-> FALSE,
      level4LockActive |-> FALSE,
      ctrlLeftPressed |-> FALSE, ctrlRightPressed |-> FALSE,
      altLeftPressed |-> FALSE, winLeftPressed |-> FALSE, winRightPressed |-> FALSE ]

VARIABLES
    g_settings,   \* Settings g_settings, fixed once WinMain has sanitized it
    g_state,      \* State g_state
    ev,           \* the event (or menu action) the last step handled
    out,          \* the input events that step synthesized, in order
    ret,          \* what the hook returned: "pass" (CallNextHookEx) or "swallow" (-1)
    usedLevel,    \* {level} when the step computed the level, {} otherwise
    held,         \* the modifier keys physically held (the environment's truth)
    emitted,      \* per modifier key held: the key-downs the hook has sent for it
    tap,          \* per tappable modifier: how it has been pressed since its last release
    gestures,     \* how often Shift+Pause has toggled bypass, counted up to MaxGestures
    winMain,      \* the shell thread (WinMain): where it is, and what a toggle in flight read
    hookThread,   \* the hook thread (hookThreadMain): where it is, its keyhook handle
    boot          \* what the program starts from: settings.ini's content and the command line

vars == <<g_settings, g_state, ev, out, ret, usedLevel, held, emitted, tap, gestures,
          winMain, hookThread, boot>>

\* the two threads and the start-up input, for the steps that leave them alone
threads == <<winMain, hookThread, boot>>

\* Layout g_layout = buildLayout(g_settings)
g_layout == BuiltLayouts[g_settings.layout][g_settings.quoteAsMod3R]

----------------------------------------------------------------------------
\* Synthetic input (main.cpp:352-407)

\* keybd_event(bVk, bScan, dwFlags, 0)
keybd_event(bVk, bScan, dwFlags) ==
    [api |-> "keybd_event", vk |-> bVk, scan |-> bScan, flags |-> dwFlags]

\* sendUnicodeChar(key): one SendInput with KEYEVENTF_UNICODE
sendUnicodeChar(key) ==
    [api |-> "SendInput", vk |-> 0, scan |-> key, flags |-> KEYEVENTF_UNICODE]

\* mapScanCodeToChar(level, in); a read past the table is undefined and yields oob
mapScanCodeToChar(level, in, oob) ==
    IF in \in Slots THEN g_layout.levels[level][in] ELSE oob

\* A faulty sendChar that takes the virtual-key path while shift lock is active
sendCharIgnoringShiftLock(s, key, keyInfo, keyScanResult) ==
    IF \/ keyScanResult = -1
       \/ s.capsLockActive \/ s.level4LockActive
       \/ (keyInfo.vkCode >= 48 /\ keyInfo.vkCode <= 57)
    THEN << sendUnicodeChar(key) >>
    ELSE LET modifiers == keyScanResult \div 256
             shift == (modifiers % 2) # 0
             alt0  == ((modifiers \div 2) % 2) # 0
             ctrl0 == ((modifiers \div 4) % 2) # 0
             altgr == alt0 /\ ctrl0
             ctrl  == ctrl0 /\ ~altgr
             alt   == alt0 /\ ~altgr
             opt(c, x) == IF c THEN << x >> ELSE << >>
         IN    opt(altgr, keybd_event(VK_RMENU, 0, 0))
            \o opt(ctrl,  keybd_event(VK_CONTROL, 0, 0))
            \o opt(alt,   keybd_event(VK_MENU, 0, 0))
            \o opt(shift, keybd_event(VK_SHIFT, 0, 0))
            \o << keybd_event(keyScanResult % 256, keyInfo.scanCode, keyInfo.flags) >>
            \o opt(altgr, keybd_event(VK_RMENU, 0, KEYEVENTF_KEYUP))
            \o opt(ctrl,  keybd_event(VK_CONTROL, 0, KEYEVENTF_KEYUP))
            \o opt(alt,   keybd_event(VK_MENU, 0, KEYEVENTF_KEYUP))
            \o opt(shift, keybd_event(VK_SHIFT, 0, KEYEVENTF_KEYUP))

\* sendChar(key, keyInfo): keyScanResult is what VkKeyScanEx answered for key
sendChar(s, key, keyInfo, keyScanResult) ==
    IF \/ keyScanResult = -1
       \/ s.shiftLockActive \/ s.capsLockActive \/ s.level4LockActive
       \/ (keyInfo.vkCode >= 48 /\ keyInfo.vkCode <= 57)
    THEN << sendUnicodeChar(key) >>
    ELSE LET modifiers == keyScanResult \div 256
             shift == (modifiers % 2) # 0
             alt0  == ((modifiers \div 2) % 2) # 0
             ctrl0 == ((modifiers \div 4) % 2) # 0
             altgr == alt0 /\ ctrl0
             ctrl  == ctrl0 /\ ~altgr
             alt   == alt0 /\ ~altgr
             opt(c, x) == IF c THEN << x >> ELSE << >>
         IN    opt(altgr, keybd_event(VK_RMENU, 0, 0))
            \o opt(ctrl,  keybd_event(VK_CONTROL, 0, 0))
            \o opt(alt,   keybd_event(VK_MENU, 0, 0))
            \o opt(shift, keybd_event(VK_SHIFT, 0, 0))
            \o << keybd_event(keyScanResult % 256, keyInfo.scanCode, keyInfo.flags) >>
            \o opt(altgr, keybd_event(VK_RMENU, 0, KEYEVENTF_KEYUP))
            \o opt(ctrl,  keybd_event(VK_CONTROL, 0, KEYEVENTF_KEYUP))
            \o opt(alt,   keybd_event(VK_MENU, 0, KEYEVENTF_KEYUP))
            \o opt(shift, keybd_event(VK_SHIFT, 0, KEYEVENTF_KEYUP))

\* What a handler hands back: the new state, the synthesized input, the hook's
\* return value and the level it computed (if it did).
Handled(s, o, r, lv) == [st |-> s, out |-> o, ret |-> r, level |-> lv]
Pass == "pass"
Swallow == "swallow"
NoOutput == << >>

\* handleLayer2SpecialCases: <<handled, output>>
handleLayer2SpecialCases(s, keyInfo, ks) ==
    CASE keyInfo.scanCode = 27 -> << TRUE, sendChar(s, 771, keyInfo, ks) >>
      [] keyInfo.scanCode = 41 -> << TRUE, sendChar(s, 780, keyInfo, ks) >>
      [] OTHER -> << FALSE, NoOutput >>

\* handleLayer3SpecialCases
handleLayer3SpecialCases(s, keyInfo, ks) ==
    CASE keyInfo.scanCode = 13 -> << TRUE, sendChar(s, 778, keyInfo, ks) >>
      [] keyInfo.scanCode = 20 ->
            << TRUE, sendChar(s, 94, keyInfo, ks) \o << keybd_event(VK_SPACE, 0, 0) >> >>
      [] keyInfo.scanCode = 27 -> << TRUE, sendChar(s, 823, keyInfo, ks) >>
      [] keyInfo.scanCode \in {31, 48} ->
            IF g_layout.is_kou_or_vue
            THEN << TRUE, sendChar(s, 96, keyInfo, ks) \o << keybd_event(VK_SPACE, 0, 0) >> >>
            ELSE << FALSE, NoOutput >>
      [] OTHER -> << FALSE, NoOutput >>

\* handleLayer4SpecialCases; a read past level4_specials is undefined and yields oob
handleLayer4SpecialCases(s, keyInfo, ks, oob) ==
    CASE keyInfo.scanCode = 13 -> << TRUE, sendChar(s, 168, keyInfo, ks) >>
      [] keyInfo.scanCode = 27 -> << TRUE, sendChar(s, 733, keyInfo, ks) >>
      [] keyInfo.scanCode = 41 -> << TRUE, sendChar(s, 775, keyInfo, ks) >>
      [] OTHER ->
            LET mapped == IF keyInfo.scanCode \in Slots
                          THEN g_layout.level4_specials[keyInfo.scanCode] ELSE oob
            IN  IF mapped # 0
                THEN << TRUE, << keybd_event(mapped, 0, KEYEVENTF_EXTENDEDKEY) >> >>
                ELSE << FALSE, NoOutput >>

isShift(keyInfo) == keyInfo.vkCode \in {VK_SHIFT, VK_LSHIFT, VK_RSHIFT}

isMod3(keyInfo) ==
    \/ keyInfo.scanCode = g_settings.scanCodeMod3L
    \/ keyInfo.scanCode = g_settings.scanCodeMod3R

isMod4(keyInfo) ==
    \/ keyInfo.scanCode = g_settings.scanCodeMod4L
    \/ keyInfo.vkCode = VK_RMENU

\* A faulty isSystemKeyPressed that only looks at the two ctrl keys
isSystemKeyPressedCtrlOnly(s) == s.ctrlLeftPressed \/ s.ctrlRightPressed

isSystemKeyPressed(s) ==
    \/ s.ctrlLeftPressed \/ s.ctrlRightPressed
    \/ s.altLeftPressed
    \/ s.winLeftPressed \/ s.winRightPressed

isLetter(key) ==
    \/ (key >= 65 /\ key <= 90)
    \/ (key >= 97 /\ key <= 122)
    \/ key \in {228, 246, 252, 223, 196, 214, 220, 7838}

\* A faulty toggleBypassMode that only ever switches bypass on
enableBypassMode(s) == [s EXCEPT !.bypassMode = TRUE]

\* toggleBypassMode (the tray icon change and the log line are left out)
toggleBypassMode(s) == [s EXCEPT !.bypassMode = ~s.bypassMode]

----------------------------------------------------------------------------
\* keyevent (main.cpp:572-845), branch by branch.

\* A faulty toggle that arms the lock and never releases it again
armShiftOrCapsLock(s) ==
    IF g_settings.shiftLockEnabled
    THEN [s EXCEPT !.shiftLockActive = TRUE]
    ELSE IF g_settings.capsLockEnabled
         THEN [s EXCEPT !.capsLockActive = TRUE]
         ELSE s

\* One shift key was released while the other is held (main.cpp:605-613, 617-625)
toggleShiftOrCapsLock(s) ==
    IF g_settings.shiftLockEnabled
    THEN [s EXCEPT !.shiftLockActive = ~s.shiftLockActive]
    ELSE IF g_settings.capsLockEnabled
         THEN [s EXCEPT !.capsLockActive = ~s.capsLockActive]
         ELSE s

\* A faulty shift release whose left branch toggles caps lock where the right
\* branch toggles shift lock
shiftKeyUpLeftTogglesCaps(s, keyInfo) ==
    IF keyInfo.vkCode = VK_RSHIFT
    THEN Handled([s EXCEPT !.shiftRightPressed = FALSE,
                           !.shiftLockActive =
                               IF s.shiftLeftPressed /\ g_settings.shiftLockEnabled
                               THEN ~s.shiftLockActive ELSE s.shiftLockActive,
                           !.shiftPressed = s.shiftLeftPressed],
                 << keybd_event(VK_RSHIFT, 54, KEYEVENTF_KEYUP) >>, Swallow, {})
    ELSE Handled([s EXCEPT !.shiftLeftPressed = FALSE,
                           !.capsLockActive =
                               IF s.shiftRightPressed /\ g_settings.shiftLockEnabled
                               THEN ~s.capsLockActive ELSE s.capsLockActive,
                           !.shiftPressed = s.shiftRightPressed],
                 << keybd_event(VK_LSHIFT, 42, KEYEVENTF_KEYUP) >>, Swallow, {})

\* key up, isShift (main.cpp:602-630)
shiftKeyUp(s, keyInfo) ==
    LET a == IF keyInfo.vkCode = VK_RSHIFT
             THEN [s EXCEPT !.shiftRightPressed = FALSE]
             ELSE [s EXCEPT !.shiftLeftPressed = FALSE]
        other == IF keyInfo.vkCode = VK_RSHIFT
                 THEN a.shiftLeftPressed ELSE a.shiftRightPressed
        b == IF other THEN toggleShiftOrCapsLock(a) ELSE a
        o == IF keyInfo.vkCode = VK_RSHIFT
             THEN << keybd_event(VK_RSHIFT, 54, KEYEVENTF_KEYUP) >>
             ELSE << keybd_event(VK_LSHIFT, 42, KEYEVENTF_KEYUP) >>
    IN  Handled([b EXCEPT !.shiftPressed = b.shiftLeftPressed \/ b.shiftRightPressed],
                o, Swallow, {})

\* A faulty Mod3 release that passes the key-up on when it is no tap
mod3KeyUpPassed(s, keyInfo) ==
    IF keyInfo.scanCode = g_settings.scanCodeMod3R
    THEN IF g_settings.mod3RAsReturn /\ s.level3modRightAndNoOtherKeyPressed
         THEN Handled([s EXCEPT !.level3modRightPressed = FALSE,
                                !.level3modRightAndNoOtherKeyPressed = FALSE],
                      << keybd_event(keyInfo.vkCode, 0, KEYEVENTF_KEYUP),
                         keybd_event(VK_RETURN, 0, KEYEVENTF_EXTENDEDKEY) >>,
                      Swallow, {})
         ELSE Handled([s EXCEPT !.level3modRightPressed = FALSE,
                                !.mod3Pressed = s.level3modLeftPressed],
                      NoOutput, Pass, {})
    ELSE IF g_settings.capsLockAsEscape /\ s.level3modLeftAndNoOtherKeyPressed
         THEN Handled([s EXCEPT !.level3modLeftPressed = FALSE,
                                !.level3modLeftAndNoOtherKeyPressed = FALSE],
                      << keybd_event(VK_CAPITAL, 0, KEYEVENTF_KEYUP),
                         keybd_event(VK_ESCAPE, 0, KEYEVENTF_EXTENDEDKEY) >>,
                      Swallow, {})
         ELSE Handled([s EXCEPT !.level3modLeftPressed = FALSE,
                                !.mod3Pressed = s.level3modRightPressed],
                      NoOutput, Pass, {})

\* key up, isMod3 (main.cpp:631-655)
mod3KeyUp(s, keyInfo) ==
    IF keyInfo.scanCode = g_settings.scanCodeMod3R
    THEN LET a == [s EXCEPT !.level3modRightPressed = FALSE]
         IN  IF g_settings.mod3RAsReturn /\ a.level3modRightAndNoOtherKeyPressed
             THEN Handled([a EXCEPT !.level3modRightAndNoOtherKeyPressed = FALSE],
                          << keybd_event(keyInfo.vkCode, 0, KEYEVENTF_KEYUP),
                             keybd_event(VK_RETURN, 0, KEYEVENTF_EXTENDEDKEY) >>,
                          Swallow, {})
             ELSE Handled([a EXCEPT !.mod3Pressed =
                              a.level3modLeftPressed \/ a.level3modRightPressed],
                          NoOutput, Swallow, {})
    ELSE LET a == [s EXCEPT !.level3modLeftPressed = FALSE]
         IN  IF g_settings.capsLockAsEscape /\ a.level3modLeftAndNoOtherKeyPressed
             THEN Handled([a EXCEPT !.level3modLeftAndNoOtherKeyPressed = FALSE],
                          << keybd_event(VK_CAPITAL, 0, KEYEVENTF_KEYUP),
                             keybd_event(VK_ESCAPE, 0, KEYEVENTF_EXTENDEDKEY) >>,
                          Swallow, {})
             ELSE Handled([a EXCEPT !.mod3Pressed =
                              a.level3modLeftPressed \/ a.level3modRightPressed],
                          NoOutput, Swallow, {})

\* A faulty Mod4 release that tries the Tab substitute before the level 4 lock
mod4KeyUpTabFirst(s, keyInfo) ==
    IF keyInfo.scanCode = g_settings.scanCodeMod4L
    THEN IF g_settings.mod4LAsTab /\ s.level4modLeftAndNoOtherKeyPressed
         THEN Handled([s EXCEPT !.level4modLeftPressed = FALSE,
                                !.level4modLeftAndNoOtherKeyPressed = FALSE],
                      << keybd_event(keyInfo.vkCode, 0, KEYEVENTF_KEYUP),
                         keybd_event(VK_TAB, 0, KEYEVENTF_EXTENDEDKEY) >>,
                      Swallow, {})
         ELSE Handled([s EXCEPT !.level4modLeftPressed = FALSE,
                                !.level4LockActive =
                                    IF s.level4modRightPressed /\ g_settings.level4LockEnabled
                                    THEN ~s.level4LockActive ELSE s.level4LockActive,
                                !.mod4Pressed = s.level4modRightPressed],
                      NoOutput, Swallow, {})
    ELSE Handled([s EXCEPT !.level4modRightPressed = FALSE,
                           !.level4LockActive =
                               IF s.level4modLeftPressed /\ g_settings.level4LockEnabled
                               THEN ~s.level4LockActive ELSE s.level4LockActive,
                           !.mod4Pressed = s.level4modLeftPressed],
                 NoOutput, Swallow, {})

\* A faulty Mod4 release where only the left key's release toggles the lock
mod4KeyUpLeftOnly(s, keyInfo) ==
    IF keyInfo.scanCode = g_settings.scanCodeMod4L
    THEN IF s.level4modRightPressed /\ g_settings.level4LockEnabled
         THEN Handled([s EXCEPT !.level4modLeftPressed = FALSE,
                                !.level4LockActive = ~s.level4LockActive,
                                !.mod4Pressed = s.level4modRightPressed],
                      NoOutput, Swallow, {})
         ELSE IF g_settings.mod4LAsTab /\ s.level4modLeftAndNoOtherKeyPressed
         THEN Handled([s EXCEPT !.level4modLeftPressed = FALSE,
                                !.level4modLeftAndNoOtherKeyPressed = FALSE],
                      << keybd_event(keyInfo.vkCode, 0, KEYEVENTF_KEYUP),
                         keybd_event(VK_TAB, 0, KEYEVENTF_EXTENDEDKEY) >>,
                      Swallow, {})
         ELSE Handled([s EXCEPT !.level4modLeftPressed = FALSE,
                                !.mod4Pressed = s.level4modRightPressed],
                      NoOutput, Swallow, {})
    ELSE Handled([s EXCEPT !.level4modRightPressed = FALSE,
                           !.mod4Pressed = s.level4modLeftPressed],
                 NoOutput, Swallow, {})

\* key up, isMod4 (main.cpp:656-679)
mod4KeyUp(s, keyInfo) ==
    IF keyInfo.scanCode = g_settings.scanCodeMod4L
    THEN LET a == [s EXCEPT !.level4modLeftPressed = FALSE]
         IN  IF a.level4modRightPressed /\ g_settings.level4LockEnabled
             THEN LET b == [a EXCEPT !.level4LockActive = ~a.level4LockActive]
                  IN  Handled([b EXCEPT !.mod4Pressed =
                                  b.level4modLeftPressed \/ b.level4modRightPressed],
                              NoOutput, Swallow, {})
             ELSE IF g_settings.mod4LAsTab /\ a.level4modLeftAndNoOtherKeyPressed
             THEN Handled([a EXCEPT !.level4modLeftAndNoOtherKeyPressed = FALSE],
                          << keybd_event(keyInfo.vkCode, 0, KEYEVENTF_KEYUP),
                             keybd_event(VK_TAB, 0, KEYEVENTF_EXTENDEDKEY) >>,
                          Swallow, {})
             ELSE Handled([a EXCEPT !.mod4Pressed =
                              a.level4modLeftPressed \/ a.level4modRightPressed],
                          NoOutput, Swallow, {})
    ELSE LET a == [s EXCEPT !.level4modRightPressed = FALSE]
             b == IF a.level4modLeftPressed /\ g_settings.level4LockEnabled
                  THEN [a EXCEPT !.level4LockActive = ~a.level4LockActive]
                  ELSE a
         IN  Handled([b EXCEPT !.mod4Pressed =
                         b.level4modLeftPressed \/ b.level4modRightPressed],
                     NoOutput, Swallow, {})

\* A faulty relabeling whose wide swap leaves the left win key what it is
systemKeyWinUnswapped(s, keyInfo, down) ==
    LET fl == IF down THEN 0 ELSE KEYEVENTF_KEYUP
        swallowed(t, vk) == << TRUE, Handled(t, << keybd_event(vk, 0, fl) >>, Swallow, {}) >>
    IN  IF keyInfo.vkCode = VK_LCONTROL /\ keyInfo.scanCode = SCANCODE_LCONTROL_KEY
        THEN IF g_settings.swapLeftCtrlAndLeftAlt
             THEN swallowed([s EXCEPT !.altLeftPressed = down], VK_LMENU)
             ELSE IF g_settings.swapLeftCtrlLeftAltAndLeftWin
             THEN swallowed([s EXCEPT !.winLeftPressed = down], VK_LWIN)
             ELSE swallowed([s EXCEPT !.ctrlLeftPressed = down], VK_LCONTROL)
        ELSE IF keyInfo.vkCode = VK_RCONTROL
        THEN << FALSE, Handled([s EXCEPT !.ctrlRightPressed = down], NoOutput, Pass, {}) >>
        ELSE IF keyInfo.vkCode = VK_LMENU
        THEN IF g_settings.swapLeftCtrlAndLeftAlt \/ g_settings.swapLeftCtrlLeftAltAndLeftWin
             THEN swallowed([s EXCEPT !.ctrlLeftPressed = down], VK_LCONTROL)
             ELSE swallowed([s EXCEPT !.altLeftPressed = down], VK_LMENU)
        ELSE IF keyInfo.vkCode = VK_LWIN
        THEN swallowed([s EXCEPT !.winLeftPressed = down], VK_LWIN)
        ELSE IF keyInfo.vkCode = VK_RWIN
        THEN << FALSE, Handled([s EXCEPT !.winRightPressed = down], NoOutput, Pass, {}) >>
        ELSE << FALSE, Handled(s, NoOutput, Pass, {}) >>

\* key up or down of left/right ctrl, left alt, left/right win
\* (main.cpp:681-716 with down = FALSE, main.cpp:726-761 with down = TRUE).
\* Returns <<returned, result>>: the hook returns -1 for the left keys and goes
\* on with the changed state for the right ones and for every other key.
systemKey(s, keyInfo, down) ==
    LET fl == IF down THEN 0 ELSE KEYEVENTF_KEYUP
        swallowed(t, vk) == << TRUE, Handled(t, << keybd_event(vk, 0, fl) >>, Swallow, {}) >>
    IN  IF keyInfo.vkCode = VK_LCONTROL /\ keyInfo.scanCode = SCANCODE_LCONTROL_KEY
        THEN IF g_settings.swapLeftCtrlAndLeftAlt
             THEN swallowed([s EXCEPT !.altLeftPressed = down], VK_LMENU)
             ELSE IF g_settings.swapLeftCtrlLeftAltAndLeftWin
             THEN swallowed([s EXCEPT !.winLeftPressed = down], VK_LWIN)
             ELSE swallowed([s EXCEPT !.ctrlLeftPressed = down], VK_LCONTROL)
        ELSE IF keyInfo.vkCode = VK_RCONTROL
        THEN << FALSE, Handled([s EXCEPT !.ctrlRightPressed = down], NoOutput, Pass, {}) >>
        ELSE IF keyInfo.vkCode = VK_LMENU
        THEN IF g_settings.swapLeftCtrlAndLeftAlt \/ g_settings.swapLeftCtrlLeftAltAndLeftWin
             THEN swallowed([s EXCEPT !.ctrlLeftPressed = down], VK_LCONTROL)
             ELSE swallowed([s EXCEPT !.altLeftPressed = down], VK_LMENU)
        ELSE IF keyInfo.vkCode = VK_LWIN
        THEN IF g_settings.swapLeftCtrlLeftAltAndLeftWin
             THEN swallowed([s EXCEPT !.altLeftPressed = down], VK_LMENU)
             ELSE swallowed([s EXCEPT !.winLeftPressed = down], VK_LWIN)
        ELSE IF keyInfo.vkCode = VK_RWIN
        THEN << FALSE, Handled([s EXCEPT !.winRightPressed = down], NoOutput, Pass, {}) >>
        ELSE << FALSE, Handled(s, NoOutput, Pass, {}) >>

\* the key-up branch (main.cpp:599-717)
handleKeyUp(s, keyInfo) ==
    IF isShift(keyInfo) THEN shiftKeyUp(s, keyInfo)
    ELSE IF isMod3(keyInfo) THEN mod3KeyUp(s, keyInfo)
    ELSE IF isMod4(keyInfo) THEN mod4KeyUp(s, keyInfo)
    ELSE systemKey(s, keyInfo, FALSE)[2]

\* A faulty level lambda that reads the pressed flags and forgets the locks
levelIgnoringLocks(s) ==
    IF g_settings.supportLevels5and6 /\ s.shiftPressed /\ s.mod3Pressed THEN LEVEL_5
    ELSE IF g_settings.supportLevels5and6 /\ s.mod3Pressed /\ s.mod4Pressed THEN LEVEL_6
    ELSE IF s.mod4Pressed THEN LEVEL_4
    ELSE IF s.mod3Pressed THEN LEVEL_3
    ELSE IF s.shiftPressed THEN LEVEL_2
    ELSE LEVEL_1

\* the level lambda (main.cpp:763-772)
level(s) ==
    IF /\ g_settings.supportLevels5and6
       /\ s.shiftPressed # s.shiftLockActive /\ s.mod3Pressed
    THEN LEVEL_5
    ELSE IF /\ g_settings.supportLevels5and6
            /\ s.mod3Pressed /\ s.mod4Pressed # s.level4LockActive
    THEN LEVEL_6
    ELSE IF s.mod4Pressed # s.level4LockActive THEN LEVEL_4
    ELSE IF s.mod3Pressed THEN LEVEL_3
    ELSE IF s.shiftPressed # s.shiftLockActive THEN LEVEL_2
    ELSE LEVEL_1

\* A faulty shift press that toggles the lock as soon as both shift keys are down
shiftKeyDownTogglesLock(s, keyInfo, lv) ==
    IF keyInfo.vkCode = VK_RSHIFT
    THEN Handled([(IF s.shiftLeftPressed THEN toggleShiftOrCapsLock(s) ELSE s)
                    EXCEPT !.shiftPressed = TRUE, !.shiftRightPressed = TRUE],
                 << keybd_event(VK_RSHIFT, 0, 0) >>, Swallow, {lv})
    ELSE Handled([(IF s.shiftRightPressed THEN toggleShiftOrCapsLock(s) ELSE s)
                    EXCEPT !.shiftPressed = TRUE, !.shiftLeftPressed = TRUE],
                 << keybd_event(VK_LSHIFT, 0, 0) >>, Swallow, {lv})

\* key down, isShift (main.cpp:774-784)
shiftKeyDown(s, keyInfo, lv) ==
    LET a == [s EXCEPT !.shiftPressed = TRUE]
    IN  IF keyInfo.vkCode = VK_RSHIFT
        THEN Handled([a EXCEPT !.shiftRightPressed = TRUE],
                     << keybd_event(VK_RSHIFT, 0, 0) >>, Swallow, {lv})
        ELSE Handled([a EXCEPT !.shiftLeftPressed = TRUE],
                     << keybd_event(VK_LSHIFT, 0, 0) >>, Swallow, {lv})

\* key down, isMod3 (main.cpp:785-795)
mod3KeyDown(s, keyInfo, lv) ==
    LET a == [s EXCEPT !.mod3Pressed = TRUE]
    IN  IF keyInfo.scanCode = g_settings.scanCodeMod3R
        THEN Handled([a EXCEPT !.level3modRightPressed = TRUE,
                               !.level3modRightAndNoOtherKeyPressed = TRUE],
                     NoOutput, Swallow, {lv})
        ELSE Handled([a EXCEPT !.level3modLeftPressed = TRUE,
                               !.level3modLeftAndNoOtherKeyPressed = TRUE],
                     NoOutput, Swallow, {lv})

\* A faulty Mod4 press that leaves out the right-alt release sent for AltGr
mod4KeyDownSilent(s, keyInfo, lv) ==
    IF keyInfo.scanCode = g_settings.scanCodeMod4L
    THEN Handled([s EXCEPT !.mod4Pressed = TRUE, !.level4modLeftPressed = TRUE,
                           !.level4modLeftAndNoOtherKeyPressed = TRUE],
                 NoOutput, Swallow, {lv})
    ELSE Handled([s EXCEPT !.mod4Pressed = TRUE, !.level4modRightPressed = TRUE],
                 NoOutput, Swallow, {lv})

\* key down, isMod4 (main.cpp:796-809)
mod4KeyDown(s, keyInfo, lv) ==
    LET a == [s EXCEPT !.mod4Pressed = TRUE]
    IN  IF keyInfo.scanCode = g_settings.scanCodeMod4L
        THEN Handled([a EXCEPT !.level4modLeftPressed = TRUE,
                               !.level4modLeftAndNoOtherKeyPressed = TRUE],
                     NoOutput, Swallow, {lv})
        ELSE Handled([a EXCEPT !.level4modRightPressed = TRUE],
                     << keybd_event(VK_RMENU, 0, KEYEVENTF_KEYUP) >>, Swallow, {lv})

\* key down of any other key.  env holds what the host answers: vkKeyScan is
\* VkKeyScanEx's result, oobChar / oobAction what a read past a table yields.

\* the special cases of the level in use (main.cpp:810-815): <<handled, output>>
handleSpecialCases(s, keyInfo, lv, env) ==
    CASE lv = LEVEL_2 -> handleLayer2SpecialCases(s, keyInfo, env.vkKeyScan)
      [] lv = LEVEL_3 -> handleLayer3SpecialCases(s, keyInfo, env.vkKeyScan)
      [] lv = LEVEL_4 -> handleLayer4SpecialCases(s, keyInfo, env.vkKeyScan, env.oobAction)
      [] OTHER -> << FALSE, NoOutput >>

\* A faulty caps lock that only replaces the letters of level 1
capsLockCharAtLevel1Only(s, keyInfo, lv, env, key) ==
    IF s.capsLockActive /\ lv = LEVEL_1 /\ isLetter(key)
    THEN mapScanCodeToChar(LEVEL_2, keyInfo.scanCode, env.oobChar)
    ELSE key

\* caps lock swaps levels 1 and 2 for letters (main.cpp:824-827)
capsLockChar(s, keyInfo, lv, env, key) ==
    IF s.capsLockActive /\ lv \in {LEVEL_1, LEVEL_2} /\ isLetter(key)
    THEN mapScanCodeToChar(IF lv = LEVEL_1 THEN LEVEL_2 ELSE LEVEL_1,
                           keyInfo.scanCode, env.oobChar)
    ELSE key

\* A faulty send that also swallows a key whose table entry is empty
sendMappedEvenIfEmpty(s, keyInfo, lv, env, key) ==
    IF ~HasFlag(keyInfo.flags, LLKHF_INJECTED)
    THEN Handled(s, sendChar(s, key, keyInfo, env.vkKeyScan), Swallow, {lv})
    ELSE Handled(s, NoOutput, Pass, {lv})

\* the mapped character is sent and the key swallowed (main.cpp:828-835)
sendMapped(s, keyInfo, lv, env, key) ==
    IF key # 0 /\ ~HasFlag(keyInfo.flags, LLKHF_INJECTED)
    THEN Handled(s, sendChar(s, key, keyInfo, env.vkKeyScan), Swallow, {lv})
    ELSE Handled(s, NoOutput, Pass, {lv})

\* A faulty lookup that reads the level-1 table at every level
mapOrdinaryKeyLevel1(s, keyInfo, lv, env) ==
    IF keyInfo.vkCode >= 96 /\ keyInfo.vkCode <= 111
    THEN Handled(s, NoOutput, Pass, {lv})
    ELSE IF g_settings.qwertzForShortcuts /\ isSystemKeyPressed(s)
    THEN Handled(s, NoOutput, Pass, {lv})
    ELSE sendMapped(s, keyInfo, lv, env,
                    capsLockChar(s, keyInfo, lv, env,
                                 mapScanCodeToChar(LEVEL_1, keyInfo.scanCode, env.oobChar)))

\* A faulty lookup that remaps the keys of the numeric keypad as well
mapOrdinaryKeyNumpadToo(s, keyInfo, lv, env) ==
    IF g_settings.qwertzForShortcuts /\ isSystemKeyPressed(s)
    THEN Handled(s, NoOutput, Pass, {lv})
    ELSE sendMapped(s, keyInfo, lv, env,
                    capsLockChar(s, keyInfo, lv, env,
                                 mapScanCodeToChar(lv, keyInfo.scanCode, env.oobChar)))

\* numeric keypad, shortcuts, table lookup (main.cpp:816-836)
mapOrdinaryKey(s, keyInfo, lv, env) ==
    IF keyInfo.vkCode >= 96 /\ keyInfo.vkCode <= 111
    THEN Handled(s, NoOutput, Pass, {lv})
    ELSE IF g_settings.qwertzForShortcuts /\ isSystemKeyPressed(s)
    THEN Handled(s, NoOutput, Pass, {lv})
    ELSE sendMapped(s, keyInfo, lv, env,
                    capsLockChar(s, keyInfo, lv, env,
                                 mapScanCodeToChar(lv, keyInfo.scanCode, env.oobChar)))

\* main.cpp:810-836, special being handleSpecialCases' answer
mapKeyDownAfter(s, keyInfo, lv, env, special) ==
    IF special[1] THEN Handled(s, special[2], Swallow, {lv})
    ELSE mapOrdinaryKey(s, keyInfo, lv, env)

mapKeyDown(s, keyInfo, lv, env) ==
    mapKeyDownAfter(s, keyInfo, lv, env, handleSpecialCases(s, keyInfo, lv, env))

\* key down: the sole-key flags are cleared first (main.cpp:722-724)
clearSoleKeyFlags(s) ==
    [s EXCEPT !.level3modLeftAndNoOtherKeyPressed = FALSE,
              !.level3modRightAndNoOtherKeyPressed = FALSE,
              !.level4modLeftAndNoOtherKeyPressed = FALSE]

\* key down of a key that is not left ctrl / left alt / left win (main.cpp:763-836)
levelKeyDown(s, keyInfo, lv, env) ==
    IF isShift(keyInfo) THEN shiftKeyDown(s, keyInfo, lv)
    ELSE IF isMod3(keyInfo) THEN mod3KeyDown(s, keyInfo, lv)
    ELSE IF isMod4(keyInfo) THEN mod4KeyDown(s, keyInfo, lv)
    ELSE mapKeyDown(s, keyInfo, lv, env)

\* main.cpp:726-836, sys being systemKey's answer
keyDownAfter(sys, keyInfo, env) ==
    IF sys[1] THEN sys[2]
    ELSE levelKeyDown(sys[2].st, keyInfo, level(sys[2].st), env)

\* the key-down branch (main.cpp:719-837)
handleKeyDown(s, keyInfo, env) ==
    keyDownAfter(systemKey(clearSoleKeyFlags(s), keyInfo, TRUE), keyInfo, env)

\* the injected check (main.cpp:585)
isInjected(keyInfo) == HasFlag(keyInfo.flags, LLKHF_INJECTED)

\* Shift + Pause (main.cpp:591)
isBypassCombo(s, keyInfo, keyDown) ==
    keyDown /\ s.shiftPressed /\ keyInfo.scanCode = SCANCODE_PAUSE_KEY

\* A faulty keyevent that looks for Shift+Pause before it looks at LLKHF_INJECTED
dispatchGestureFirst(s, keyInfo, keyUp, env) ==
    IF isBypassCombo(s, keyInfo, ~keyUp)
    THEN Handled(toggleBypassMode(s), NoOutput, Swallow, {})
    ELSE IF isInjected(keyInfo) \/ s.bypassMode THEN Handled(s, NoOutput, Pass, {})
    ELSE IF keyUp THEN handleKeyUp(s, keyInfo)
    ELSE handleKeyDown(s, keyInfo, env)

\* keyevent once keyInfo is read from lparam (main.cpp:584-837)
dispatch(s, keyInfo, keyUp, env) ==
    IF isInjected(keyInfo) THEN Handled(s, NoOutput, Pass, {})
    ELSE IF isBypassCombo(s, keyInfo, ~keyUp)
    THEN Handled(toggleBypassMode(s), NoOutput, Swallow, {})
    ELSE IF s.bypassMode THEN Handled(s, NoOutput, Pass, {})
    ELSE IF keyUp THEN handleKeyUp(s, keyInfo)
    ELSE handleKeyDown(s, keyInfo, env)

\* keyevent(code = HC_ACTION, wparam, lparam) for a key-up or key-down message
keyevent(s, e, env) == dispatch(s, keyInfoOf(e), e.up, env)

----------------------------------------------------------------------------
\* The environment: which keys are physically held, which key-downs the hook sent
\* when they were pressed, and how each tappable modifier has been pressed since
\* its last release.  None of this is read by the hook.

TapRoles == {"m3L", "m3R", "m4L"}

roleScanCode(r) ==
    CASE r = "m3L" -> g_settings.scanCodeMod3L
      [] r = "m3R" -> g_settings.scanCodeMod3R
      [] OTHER     -> g_settings.scanCodeMod4L

\* the keys whose pressed state the hook tracks
isModifierKey(keyInfo) ==
    \/ isShift(keyInfo) \/ isMod3(keyInfo) \/ isMod4(keyInfo)
    \/ (keyInfo.vkCode = VK_LCONTROL /\ keyInfo.scanCode = SCANCODE_LCONTROL_KEY)
    \/ keyInfo.vkCode \in {VK_RCONTROL, VK_LMENU, VK_LWIN, VK_RWIN}

heldAfter(e) ==
    IF e.injected \/ ~isModifierKey(keyInfoOf(e)) THEN held
    ELSE IF e.up THEN held \ {e.key} ELSE held \cup {e.key}

\* <<key, vk>>: a key-down of this modifier key was handled by keybd_event(vk, 0, 0)
\* (main.cpp:728-757, 777-782) and the key has not come up since.
emittedAfter(e, o) ==
    IF e.injected \/ ~isModifierKey(keyInfoOf(e)) THEN emitted
    ELSE IF e.up THEN { p \in emitted : p[1] # e.key }
    ELSE emitted \cup { << e.key, o[i].vk >> : i \in
             { j \in DOMAIN o : /\ o[j].api = "keybd_event"
                                /\ ~HasFlag(o[j].flags, KEYEVENTF_KEYUP) } }

\* "idle": not pressed; "alone": pressed while the hook was remapping and no other
\* key went down since; "unseen": pressed while bypass was on and no other key went
\* down since; "other": another key went down after it was pressed.
tapAfter(e) ==
    LET sc == keyInfoOf(e).scanCode
    IN  IF e.injected THEN tap
        ELSE IF e.up
        THEN [r \in TapRoles |-> IF roleScanCode(r) = sc THEN "idle" ELSE tap[r]]
        ELSE [r \in TapRoles |->
                IF roleScanCode(r) = sc
                THEN (IF g_state.bypassMode THEN "unseen" ELSE "alone")
                ELSE IF tap[r] = "idle" THEN "idle" ELSE "other"]

\* the level modifiers: their key-down returns before any table is read
isLevelModifier(keyInfo) == isShift(keyInfo) \/ isMod3(keyInfo) \/ isMod4(keyInfo)

\* Between two calls the hook thread waits in GetMessage: nothing is being handled
Idle == [kind |-> "idle", key |-> "Pause", up |-> FALSE, injected |-> FALSE, host |-> {}]

\* Shift+Pause toggles are counted up to this number
MaxGestures == 2

gesturesAfter(e) ==
    IF ~e.injected /\ isBypassCombo(g_state, keyInfoOf(e), ~e.up) /\ gestures < MaxGestures
    THEN gestures + 1 ELSE gestures

\* The hook procedure has returned r for event e
Returned(e, env, r) ==
    /\ g_state' = r.st
    /\ out' = r.out
    /\ ret' = r.ret
    /\ usedLevel' = r.level
    /\ ev' = [ kind |-> "key", key |-> e.key, up |-> e.up, injected |-> e.injected,
               host |-> IF r.level # {} /\ ~isLevelModifier(keyInfoOf(e))
                        THEN {env} ELSE {} ]
    /\ held' = heldAfter(e)
    /\ emitted' = emittedAfter(e, r.out)
    /\ tap' = tapAfter(e)
    /\ gestures' = gesturesAfter(e)
    /\ UNCHANGED <<g_settings, threads>>

\* One call of the hook procedure with event e; env is what the host would answer.
HookProc(e, env) ==
    /\ ev.kind = "idle"
    /\ Returned(e, env, keyevent(g_state, e, env))

\* The tray menu's first item calls toggleBypassMode (main.cpp:1055)
MenuToggle ==
    /\ ev.kind = "idle"
    /\ g_state' = toggleBypassMode(g_state)
    /\ ev' = [Idle EXCEPT !.kind = "menu"]
    /\ out' = NoOutput
    /\ ret' = Pass
    /\ usedLevel' = {}
    /\ UNCHANGED <<g_settings, held, emitted, tap, gestures, threads>>

----------------------------------------------------------------------------
\* Bounds and input spaces

\* at most this many modifier keys are physically held at once
MaxHeld == 3

HostAnswer(ks, c, a) == [vkKeyScan |-> ks, oobChar |-> c, oobAction |-> a]

\* VkKeyScanEx: -1 (not found) or virtual key + 256 * (1 shift, 2 ctrl, 4 alt)
HostsMain == { HostAnswer(-1, 0, 0), HostAnswer(65 + 256, 0, 0) }

canPress(key) ==
    \/ ~isModifierKey(keyInfoOf(KeyEvent(key, FALSE, FALSE)))
    \/ key \in held
    \/ Cardinality(held) < MaxHeld

\* WinMain waits in its message loop (main.cpp:1071), no toggle in flight
ShellInLoop == [pc |-> "loop", read |-> {}]

\* hookThreadMain waits in its message loop (main.cpp:869) with the hook installed
HookInLoop == [pc |-> "loop", keyhook |-> "installed", read |-> {}]

\* the state when the hook is installed, under one of the given settings records:
\* settings.ini held these flags and the command line held no argument
InitWith(settings) ==
    /\ g_settings \in settings
    /\ winMain = ShellInLoop
    /\ hookThread = HookInLoop
    /\ boot = [ini |-> {g_settings}, argv |-> << >>]
    /\ g_state = InitialState
    /\ ev = Idle
    /\ out = NoOutput
    /\ ret = Pass
    /\ usedLevel = {}
    /\ held = {}
    /\ emitted = {}
    /\ tap = [r \in TapRoles |-> "idle"]
    /\ gestures = 0

KeyDownOf(keys, hosts) ==
    \E key \in keys, env \in hosts :
        canPress(key) /\ HookProc(KeyEvent(key, FALSE, FALSE), env)

KeyUpOf(keys, hosts) ==
    \E key \in keys, env \in hosts : HookProc(KeyEvent(key, TRUE, FALSE), env)

InjectedOf(keys, hosts) ==
    \E key \in keys, up \in BOOLEAN, env \in hosts :
        HookProc(KeyEvent(key, up, TRUE), env)

\* The call has returned and its output is delivered: the loop waits for the next message
GetMessage ==
    /\ ev.kind # "idle"
    /\ ev' = Idle
    /\ out' = NoOutput
    /\ ret' = Pass
    /\ usedLevel' = {}
    /\ UNCHANGED <<g_settings, g_state, held, emitted, tap, gestures, threads>>

----------------------------------------------------------------------------
\* Spec: both shift keys, both Mod3 keys, both Mod4 keys and a letter key, under
\* every lock / level setting and under the tap settings; bypass stays off.

KeysMain == {"LShift", "RShift", "Caps", "Hash", "Less", "RAlt", "A"}
InjectedKeysMain == {"A", "LShift"}

\* the settings records the hook is run under: WinMain sanitizes before the hook starts
SettingsMain ==
    { sanitize([DefaultSettings EXCEPT !.capsLockEnabled = c, !.shiftLockEnabled = s,
                                       !.level4LockEnabled = l, !.supportLevels5and6 = x]) :
        c \in BOOLEAN, s \in BOOLEAN, l \in BOOLEAN, x \in BOOLEAN }
    \cup
    { sanitize([DefaultSettings EXCEPT !.capsLockAsEscape = TRUE, !.mod3RAsReturn = TRUE,
                                       !.mod4LAsTab = TRUE, !.level4LockEnabled = l]) :
        l \in BOOLEAN }

Init == InitWith(SettingsMain)
KeyDown == KeyDownOf(KeysMain, HostsMain)
KeyUp == KeyUpOf(KeysMain, HostsMain)
InjectedKey == InjectedOf(InjectedKeysMain, HostsMain)
Next == KeyDown \/ KeyUp \/ InjectedKey \/ GetMessage
Spec == Init /\ [][Next]_vars

----------------------------------------------------------------------------
\* SpecBypass: bypass mode, toggled by Shift+Pause and from the tray menu.

KeysBypass == {"LShift", "RShift", "Hash", "Pause", "A"}
InjectedKeysBypass == {"Pause", "A"}

SettingsBypass ==
    { sanitize(s) : s \in
        { DefaultSettings,
          [DefaultSettings EXCEPT !.shiftLockEnabled = TRUE],
          [DefaultSettings EXCEPT !.capsLockEnabled = TRUE, !.shiftLockEnabled = TRUE],
          [DefaultSettings EXCEPT !.mod3RAsReturn = TRUE],
          [DefaultSettings EXCEPT !.mod3RAsReturn = TRUE, !.supportLevels5and6 = TRUE] } }

InitBypass == InitWith(SettingsBypass)
BypassKeyDown == KeyDownOf(KeysBypass, HostsMain)
BypassKeyUp == KeyUpOf(KeysBypass, HostsMain)
BypassInjectedKey == InjectedOf(InjectedKeysBypass, HostsMain)
NextBypass == BypassKeyDown \/ BypassKeyUp \/ BypassInjectedKey \/ MenuToggle \/ GetMessage
SpecBypass == InitBypass /\ [][NextBypass]_vars

----------------------------------------------------------------------------
\* SpecLocks: the three locks under bypass: both shift keys, both Mod4 keys, Pause,
\* a letter key and the tray menu.

KeysLocks == {"LShift", "RShift", "Less", "RAlt", "Pause", "A"}
InjectedKeysLocks == {"RShift", "RAlt"}

SettingsLocks ==
    { sanitize(s) : s \in
        { DefaultSettings,
          [DefaultSettings EXCEPT !.shiftLockEnabled = TRUE, !.level4LockEnabled = TRUE],
          [DefaultSettings EXCEPT !.capsLockEnabled = TRUE, !.shiftLockEnabled = TRUE,
                                  !.level4LockEnabled = TRUE] } }

InitLocks == InitWith(SettingsLocks)
LocksKeyDown == KeyDownOf(KeysLocks, HostsMain)
LocksKeyUp == KeyUpOf(KeysLocks, HostsMain)
LocksInjectedKey == InjectedOf(InjectedKeysLocks, HostsMain)
NextLocks == LocksKeyDown \/ LocksKeyUp \/ LocksInjectedKey \/ MenuToggle \/ GetMessage
SpecLocks == InitLocks /\ [][NextLocks]_vars

----------------------------------------------------------------------------
\* SpecTables: the table lookup at all six levels: shift, Mod3, Mod4 and right ctrl,
\* keys with and without table entries and special cases, a digit key, a numeric
\* keypad key and Pause, under neo and kou.

KeysTables == {"LShift", "Hash", "Less", "RCtrl", "A", "B", "F1", "Circumflex",
               "Digit1", "Num7", "Pause"}
SettingsTables ==
    { sanitize([DefaultSettings EXCEPT !.layout = n, !.supportLevels5and6 = x,
                                       !.qwertzForShortcuts = q]) :
        n \in {"neo", "kou"}, x \in BOOLEAN, q \in BOOLEAN }

NextTables ==
    \/ KeyDownOf(KeysTables, HostsMain)
    \/ KeyUpOf(KeysTables, HostsMain)
    \/ InjectedOf({"A"}, HostsMain)
    \/ GetMessage
SpecTables == InitWith(SettingsTables) /\ [][NextTables]_vars

----------------------------------------------------------------------------
\* SpecEmitter: sendChar under the three locks, for a letter key, a digit key and a
\* key with special cases, with the host's VkKeyScanEx answering "not found" or a
\* virtual key under every combination of its three modifier bits.

KeysEmitter == {"LShift", "RShift", "Less", "RAlt", "Hash", "A", "Digit1", "T"}
SettingsEmitter ==
    { sanitize(s) : s \in
        { DefaultSettings,
          [DefaultSettings EXCEPT !.shiftLockEnabled = TRUE, !.level4LockEnabled = TRUE],
          [DefaultSettings EXCEPT !.capsLockEnabled = TRUE] } }

\* VkKeyScanEx: -1, or virtual key 65 with shift state 0..7 in the high byte
HostsEmitter ==
    { HostAnswer(-1, 0, 0) } \cup { HostAnswer(65 + 256 * m, 0, 0) : m \in 0..7 }

NextEmitter ==
    \/ KeyDownOf(KeysEmitter, HostsEmitter)
    \/ KeyUpOf(KeysEmitter, HostsMain)
    \/ InjectedOf({"A"}, HostsMain)
    \/ GetMessage
SpecEmitter == InitWith(SettingsEmitter) /\ [][NextEmitter]_vars

----------------------------------------------------------------------------
\* SpecRace: the two writers of g_state.bypassMode.  toggleBypassMode runs on the
\* shell thread (tray menu, main.cpp:1055) and on the hook thread (Shift+Pause,
\* main.cpp:591-594); its statement g_state.bypassMode = !g_state.bypassMode is a
\* read and a write of a plain bool with nothing between the threads to order them.

\* the shell thread has read bypassMode (main.cpp:887, right-hand side)
MenuToggleRead ==
    /\ winMain.pc = "loop"
    /\ winMain' = [pc |-> "toggleBypassMode", read |-> {g_state.bypassMode}]
    /\ UNCHANGED <<g_settings, g_state, ev, out, ret, usedLevel, held, emitted, tap, gestures,
                   hookThread, boot>>

\* the shell thread writes the negation of what it read (main.cpp:887, assignment)
MenuToggleWrite ==
    /\ winMain.pc = "toggleBypassMode"
    /\ \E b \in winMain.read : g_state' = [g_state EXCEPT !.bypassMode = ~b]
    /\ winMain' = ShellInLoop
    /\ UNCHANGED <<g_settings, ev, out, ret, usedLevel, held, emitted, tap, gestures,
                   hookThread, boot>>

\* keyevent got Shift+Pause, called toggleBypassMode and has read bypassMode
ComboRead ==
    /\ hookThread.pc = "loop" /\ ev.kind = "idle"
    /\ isBypassCombo(g_state, keyInfoOf(KeyEvent("Pause", FALSE, FALSE)), TRUE)
    /\ hookThread' = [hookThread EXCEPT !.pc = "toggleBypassMode",
                                        !.read = {g_state.bypassMode}]
    /\ ev' = [Idle EXCEPT !.kind = "key", !.key = "Pause"]
    /\ UNCHANGED <<g_settings, g_state, out, ret, usedLevel, held, emitted, tap, gestures,
                   winMain, boot>>

\* the hook thread writes the negation of what it read and keyevent returns -1
ComboWrite ==
    /\ hookThread.pc = "toggleBypassMode"
    /\ \E b \in hookThread.read : g_state' = [g_state EXCEPT !.bypassMode = ~b]
    /\ hookThread' = HookInLoop
    /\ out' = NoOutput
    /\ ret' = Swallow
    /\ usedLevel' = {}
    /\ gestures' = IF gestures < MaxGestures THEN gestures + 1 ELSE gestures
    /\ UNCHANGED <<g_settings, ev, held, emitted, tap, winMain, boot>>

\* every other event is handled in one piece
notCombo(e) == e.injected \/ ~isBypassCombo(g_state, keyInfoOf(e), ~e.up)

KeysRace == {"LShift", "RShift", "Pause", "A"}

SettingsRace ==
    { sanitize(s) : s \in
        { DefaultSettings, [DefaultSettings EXCEPT !.shiftLockEnabled = TRUE] } }

RaceKeyDown ==
    \E key \in KeysRace, env \in HostsMain :
        /\ hookThread.pc = "loop" /\ canPress(key)
        /\ notCombo(KeyEvent(key, FALSE, FALSE))
        /\ HookProc(KeyEvent(key, FALSE, FALSE), env)
NextRace ==
    \/ RaceKeyDown
    \/ (hookThread.pc = "loop" /\ KeyUpOf(KeysRace, HostsMain))
    \/ ComboRead \/ ComboWrite
    \/ MenuToggleRead \/ MenuToggleWrite
    \/ (hookThread.pc = "loop" /\ GetMessage)
SpecRace == InitWith(SettingsRace) /\ [][NextRace]_vars

----------------------------------------------------------------------------
\* SpecStartup: WinMain from its first statement to the message loops: the settings
\* are read from settings.ini and from the command line and sanitized, the hook
\* thread is created and installs the hook.

\* readSettingsIni once the file is found to exist: f is the [Settings] section
\* (main.cpp:916-940; debugWindow only opens a console)
readSettingsIniFrom(s, f) ==
    sanitize([s EXCEPT !.layout = f.layout,
                       !.quoteAsMod3R = f.quoteAsMod3R,
                       !.returnAsMod3R = f.returnAsMod3R,
                       !.tabAsMod4L = f.tabAsMod4L,
                       !.capsLockEnabled = f.capsLockEnabled,
                       !.shiftLockEnabled = f.shiftLockEnabled,
                       !.level4LockEnabled = f.level4LockEnabled,
                       !.qwertzForShortcuts = f.qwertzForShortcuts,
                       !.swapLeftCtrlAndLeftAlt = f.swapLeftCtrlAndLeftAlt,
                       !.swapLeftCtrlLeftAltAndLeftWin = f.swapLeftCtrlLeftAltAndLeftWin,
                       !.supportLevels5and6 = f.supportLevels5and6,
                       !.capsLockAsEscape = f.capsLockAsEscape,
                       !.mod3RAsReturn = f.mod3RAsReturn,
                       !.mod4LAsTab = f.mod4LAsTab])

\* readSettingsIni: ini is {} when there is no settings.ini (main.cpp:911-914)
readSettingsIni(s, ini) ==
    IF ini = {} THEN s ELSE readSettingsIniFrom(s, CHOOSE f \in ini : TRUE)

\* the boolArg lambda over its thirteen settings (main.cpp:991-1024): param=value
boolArg(s, param, value) ==
    CASE param = "symmetricalLevel3Modifiers" -> [s EXCEPT !.quoteAsMod3R = (value = "1")]
      [] param = "returnKeyAsMod3R" -> [s EXCEPT !.returnAsMod3R = (value = "1")]
      [] param = "tabKeyAsMod4L" -> [s EXCEPT !.tabAsMod4L = (value = "1")]
      [] param = "capsLockEnabled" -> [s EXCEPT !.capsLockEnabled = (value = "1")]
      [] param = "shiftLockEnabled" -> [s EXCEPT !.shiftLockEnabled = (value = "1")]
      [] param = "level4LockEnabled" -> [s EXCEPT !.level4LockEnabled = (value = "1")]
      [] param = "qwertzForShortcuts" -> [s EXCEPT !.qwertzForShortcuts = (value = "1")]
      [] param = "swapLeftCtrlAndLeftAlt" -> [s EXCEPT !.swapLeftCtrlAndLeftAlt = (value = "1")]
      [] param = "swapLeftCtrlLeftAltAndLeftWin" ->
            [s EXCEPT !.swapLeftCtrlLeftAltAndLeftWin = (value = "1")]
      [] param = "supportLevels5and6" -> [s EXCEPT !.supportLevels5and6 = (value = "1")]
      [] param = "capsLockAsEscape" -> [s EXCEPT !.capsLockAsEscape = (value = "1")]
      [] param = "mod3RAsReturn" -> [s EXCEPT !.mod3RAsReturn = (value = "1")]
      [] param = "mod4LAsTab" -> [s EXCEPT !.mod4LAsTab = (value = "1")]
      [] OTHER -> s

\* readArguments: the arguments of the form param=value, in order (main.cpp:964-1028)
RECURSIVE readArguments(_, _)
readArguments(s, argv) ==
    IF argv = << >> THEN s
    ELSE readArguments(boolArg(s, Head(argv).param, Head(argv).value), Tail(argv))

\* WinMain reads settings.ini (main.cpp:1034)
ReadSettingsIni ==
    /\ winMain.pc = "readSettingsIni"
    /\ g_settings' = readSettingsIni(g_settings, boot.ini)
    /\ winMain' = [winMain EXCEPT !.pc = "readArguments"]
    /\ UNCHANGED <<g_state, ev, out, ret, usedLevel, held, emitted, tap, gestures, hookThread, boot>>

\* WinMain reads the command line (main.cpp:1035)
ReadArguments ==
    /\ winMain.pc = "readArguments"
    /\ g_settings' = readArguments(g_settings, boot.argv)
    /\ winMain' = [winMain EXCEPT !.pc = "sanitize"]
    /\ UNCHANGED <<g_state, ev, out, ret, usedLevel, held, emitted, tap, gestures, hookThread, boot>>

\* WinMain sanitizes the settings; the layout is built from them and the tray menu
\* set up (main.cpp:1036-1056)
Sanitize ==
    /\ winMain.pc = "sanitize"
    /\ g_settings' = sanitize(g_settings)
    /\ winMain' = [winMain EXCEPT !.pc = "CreateThread"]
    /\ UNCHANGED <<g_state, ev, out, ret, usedLevel, held, emitted, tap, gestures, hookThread, boot>>

\* WinMain starts the hook thread and enters its message loop (main.cpp:1066-1074)
CreateThread ==
    /\ winMain.pc = "CreateThread"
    /\ winMain' = ShellInLoop
    /\ hookThread' = [hookThread EXCEPT !.pc = "GetModuleHandle"]
    /\ UNCHANGED <<g_settings, g_state, ev, out, ret, usedLevel, held, emitted, tap, gestures, boot>>

\* hookThreadMain: GetModuleHandle(nullptr) answers a handle or null (main.cpp:848-851)
GetModuleHandle ==
    /\ hookThread.pc = "GetModuleHandle"
    /\ \E base \in {"handle", "null"} :
          hookThread' = [hookThread EXCEPT
                            !.pc = IF base = "null" THEN "LoadLibrary" ELSE "SetWindowsHookEx"]
    /\ UNCHANGED <<g_settings, g_state, ev, out, ret, usedLevel, held, emitted, tap, gestures,
                   winMain, boot>>

\* hookThreadMain: LoadLibrary answers a handle, or null and the thread returns 1
\* (main.cpp:852-853)
LoadLibrary ==
    /\ hookThread.pc = "LoadLibrary"
    /\ \E base \in {"handle", "null"} :
          hookThread' = [hookThread EXCEPT
                            !.pc = IF base = "null" THEN "returned" ELSE "SetWindowsHookEx"]
    /\ UNCHANGED <<g_settings, g_state, ev, out, ret, usedLevel, held, emitted, tap, gestures,
                   winMain, boot>>

\* hookThreadMain: SetWindowsHookEx answers a hook handle or null; either way the
\* thread enters its message loop (main.cpp:864-869)
SetWindowsHookEx ==
    /\ hookThread.pc = "SetWindowsHookEx"
    /\ \E keyhook \in {"installed", "null"} :
          hookThread' = [hookThread EXCEPT !.pc = "loop", !.keyhook = keyhook]
    /\ UNCHANGED <<g_settings, g_state, ev, out, ret, usedLevel, held, emitted, tap, gestures,
                   winMain, boot>>

\* at most this many param=value arguments on the command line
MaxArgs == 1

\* the settings the start-up inputs range over
BootParams == {"symmetricalLevel3Modifiers", "returnKeyAsMod3R", "tabKeyAsMod4L",
               "capsLockEnabled", "shiftLockEnabled",
               "swapLeftCtrlAndLeftAlt", "swapLeftCtrlLeftAltAndLeftWin"}

\* settings.ini: absent, or a [Settings] section with any values of these settings
IniFiles ==
    { {} } \cup
    { { [DefaultSettings EXCEPT !.quoteAsMod3R = q, !.returnAsMod3R = r, !.tabAsMod4L = t,
                                !.capsLockEnabled = c, !.shiftLockEnabled = l,
                                !.swapLeftCtrlAndLeftAlt = a,
                                !.swapLeftCtrlLeftAltAndLeftWin = w] } :
        q \in BOOLEAN, r \in BOOLEAN, t \in BOOLEAN, c \in BOOLEAN, l \in BOOLEAN,
        a \in BOOLEAN, w \in BOOLEAN }

BootArgs == [param : BootParams, value : {"0", "1"}]

CommandLines == UNION { [1..n -> BootArgs] : n \in 0..MaxArgs }

\* the process has just entered WinMain: g_settings and g_state hold their defaults
InitStartup ==
    /\ boot \in [ini : IniFiles, argv : CommandLines]
    /\ g_settings = DefaultSettings
    /\ g_state = InitialState
    /\ winMain = [pc |-> "readSettingsIni", read |-> {}]
    /\ hookThread = [pc |-> "notCreated", keyhook |-> "none", read |-> {}]
    /\ ev = Idle
    /\ out = NoOutput
    /\ ret = Pass
    /\ usedLevel = {}
    /\ held = {}
    /\ emitted = {}
    /\ tap = [r \in TapRoles |-> "idle"]
    /\ gestures = 0

NextStartup ==
    \/ ReadSettingsIni \/ ReadArguments \/ Sanitize \/ CreateThread
    \/ GetModuleHandle \/ LoadLibrary \/ SetWindowsHookEx
SpecStartup == InitStartup /\ [][NextStartup]_vars

----------------------------------------------------------------------------
\* SpecExit: the running program and its exit.  The tray menu's "Exit" item calls
\* exitApplication on the shell thread.  PostQuitMessage posts WM_QUIT to the queue
\* of the thread that calls it; nothing in the program posts a message to the hook
\* thread, so its GetMessage never answers 0 and main.cpp:876 is not reached.

\* exitApplication: trayicon_remove, PostQuitMessage(0) (main.cpp:881-884, 1056)
MenuExit ==
    /\ winMain.pc = "loop"
    /\ winMain' = [winMain EXCEPT !.pc = "quitPosted"]
    /\ UNCHANGED <<g_settings, g_state, ev, out, ret, usedLevel, held, emitted, tap, gestures,
                   hookThread, boot>>

\* WinMain's GetMessage answers 0 for WM_QUIT, WinMain returns 0 and the process
\* ends with it: the hook thread is ended where it stands (main.cpp:1071-1075)
WinMainReturns ==
    /\ winMain.pc = "quitPosted"
    /\ winMain' = [winMain EXCEPT !.pc = "returned"]
    /\ hookThread' = [hookThread EXCEPT !.pc = "terminated"]
    /\ UNCHANGED <<g_settings, g_state, ev, out, ret, usedLevel, held, emitted, tap, gestures, boot>>

KeysExit == {"LShift", "Pause", "A"}

SettingsExit ==
    { sanitize(s) : s \in
        { DefaultSettings, [DefaultSettings EXCEPT !.mod3RAsReturn = TRUE] } }

\* the hook is called and the menu is served while their threads are in their loops
NextExit ==
    \/ (hookThread.pc = "loop" /\ KeyDownOf(KeysExit, HostsMain))
    \/ (hookThread.pc = "loop" /\ KeyUpOf(KeysExit, HostsMain))
    \/ (hookThread.pc = "loop" /\ InjectedOf({"A"}, HostsMain))
    \/ (hookThread.pc = "loop" /\ GetMessage)
    \/ (winMain.pc = "loop" /\ MenuToggle)
    \/ MenuExit \/ WinMainReturns
SpecExit == InitWith(SettingsExit) /\ [][NextExit]_vars

----------------------------------------------------------------------------
\* SpecLayouts: the seven layout variants and three identifiers buildLayout does
\* not know, with and without quoteAsMod3R: shift, Mod3, Mod4, the quote and hash
\* keys and two letter keys.

KeysLayouts == {"LShift", "Caps", "Less", "Quote", "Hash", "A", "T"}
SettingsLayouts ==
    { sanitize([DefaultSettings EXCEPT !.layout = n, !.quoteAsMod3R = q]) :
        n \in AllLayoutNames, q \in BOOLEAN }

NextLayouts ==
    \/ KeyDownOf(KeysLayouts, HostsMain)
    \/ KeyUpOf(KeysLayouts, HostsMain)
    \/ InjectedOf({"Hash"}, HostsMain)
    \/ GetMessage
SpecLayouts == InitWith(SettingsLayouts) /\ [][NextLayouts]_vars

----------------------------------------------------------------------------
\* SpecSystem: the ctrl, alt and win keys under no swap, the narrow and the wide
\* swap, with and without qwertzForShortcuts and levels 5 and 6, and under the tap
\* settings: shift, Mod3, Mod4, a letter key and a key with special cases.

KeysSystem == {"LShift", "Caps", "Less", "LCtrl", "LAlt", "LWin", "RCtrl", "RWin",
               "A", "Circumflex"}
SettingsSystem ==
    { sanitize([DefaultSettings EXCEPT !.swapLeftCtrlAndLeftAlt = n,
                                       !.swapLeftCtrlLeftAltAndLeftWin = w,
                                       !.qwertzForShortcuts = q,
                                       !.supportLevels5and6 = x]) :
        n \in BOOLEAN, w \in BOOLEAN, q \in BOOLEAN, x \in BOOLEAN }
    \cup
    { sanitize([DefaultSettings EXCEPT !.capsLockAsEscape = TRUE, !.mod4LAsTab = TRUE,
                                       !.swapLeftCtrlAndLeftAlt = n]) :
        n \in BOOLEAN }

NextSystem ==
    \/ KeyDownOf(KeysSystem, HostsMain)
    \/ KeyUpOf(KeysSystem, HostsMain)
    \/ InjectedOf({"LCtrl"}, HostsMain)
    \/ GetMessage
SpecSystem == InitWith(SettingsSystem) /\ [][NextSystem]_vars

----------------------------------------------------------------------------
\* SpecSwap: the left ctrl, alt and win keys under each swap setting, with bypass
\* toggled by Shift+Pause and from the tray menu.

KeysSwap == {"LShift", "RShift", "Pause", "LCtrl", "LAlt", "LWin"}

SettingsSwap ==
    { sanitize([DefaultSettings EXCEPT !.swapLeftCtrlAndLeftAlt = n,
                                       !.swapLeftCtrlLeftAltAndLeftWin = w]) :
        n \in BOOLEAN, w \in BOOLEAN }

NextSwap ==
    \/ KeyDownOf(KeysSwap, HostsMain)
    \/ KeyUpOf(KeysSwap, HostsMain)
    \/ InjectedOf({"LCtrl"}, HostsMain)
    \/ MenuToggle
    \/ GetMessage
SpecSwap == InitWith(SettingsSwap) /\ [][NextSwap]_vars

----------------------------------------------------------------------------
\* SpecAltGr: the AltGr key of a German keyboard sends a left-ctrl event with scan
\* code 541 ahead of its own (main.cpp:681, 726); the level modifiers and a letter
\* key go with it.  What a read past the end of a table yields is not defined: the
\* host answers an empty and a non-empty value for it.

HostsOutOfBounds == { HostAnswer(-1, c, a) : c \in {0, 97}, a \in {0, VK_RETURN} }

NextAltGr ==
    \/ KeyDownOf({"LShift", "Hash", "Less", "RAlt", "AltGrCtrl", "LCtrl", "A", "Num7"},
                 HostsOutOfBounds)
    \/ KeyUpOf({"LShift", "Hash", "Less", "RAlt", "AltGrCtrl", "LCtrl", "A", "Num7"},
               HostsMain)
    \/ InjectedOf({"AltGrCtrl"}, HostsMain)
    \/ GetMessage
SpecAltGr ==
    /\ InitWith({ sanitize([DefaultSettings EXCEPT !.qwertzForShortcuts = q,
                                                   !.supportLevels5and6 = x]) :
                    q \in BOOLEAN, x \in BOOLEAN })
    /\ [][NextAltGr]_vars

----------------------------------------------------------------------------
\* SpecSpecials: the keys with a special case at level 2, 3 or 4 (scan codes 13, 20,
\* 27, 31, 41, 48) under neo, kou and vou, with the modifiers that select the level.

NextSpecials ==
    \/ KeyDownOf({"LShift", "Hash", "Less", "Acute", "T", "Plus", "S", "Circumflex", "B"},
                 HostsMain)
    \/ KeyUpOf({"LShift", "Hash", "Less", "Acute", "T", "Plus", "S", "Circumflex", "B"},
               HostsMain)
    \/ InjectedOf({"Plus"}, HostsMain)
    \/ GetMessage
SpecSpecials ==
    /\ InitWith({ sanitize([DefaultSettings EXCEPT !.layout = n]) :
                    n \in {"neo", "kou", "vou"} })
    /\ [][NextSpecials]_vars

----------------------------------------------------------------------------
\* Properties.  A step from the idle loop into ev'.kind = "key" is one call of
\* the hook; g_state is the state before the event, g_state' the state after.

HookStep == ev.kind = "idle" /\ ev'.kind = "key"
RealKeyDown == HookStep /\ ~ev'.injected /\ ~ev'.up
RealKeyUp == HookStep /\ ~ev'.injected /\ ev'.up

Xor(a, b) == (a /\ ~b) \/ (~a /\ b)

OtherShift(key) == IF key = "LShift" THEN "RShift" ELSE "LShift"
OtherMod4(key) == IF key = "Less" THEN "RAlt" ELSE "Less"

\* the virtual keys of the synthesized keybd_event calls, in order
SentKeys(o) == [i \in DOMAIN o |-> IF o[i].api = "keybd_event" THEN o[i].vk ELSE 0]
Substitutes == {VK_RETURN, VK_ESCAPE, VK_TAB}
EmitsSubstitute(o) == \E i \in DOMAIN o : o[i].api = "keybd_event" /\ o[i].vk \in Substitutes

\* the priority table as documented, over the five booleans and supportLevels5and6
DocumentedLevel(s) ==
    IF g_settings.supportLevels5and6
       /\ Xor(s.shiftPressed, s.shiftLockActive) /\ s.mod3Pressed THEN LEVEL_5
    ELSE IF g_settings.supportLevels5and6
            /\ s.mod3Pressed /\ Xor(s.mod4Pressed, s.level4LockActive) THEN LEVEL_6
    ELSE IF Xor(s.mod4Pressed, s.level4LockActive) THEN LEVEL_4
    ELSE IF s.mod3Pressed THEN LEVEL_3
    ELSE IF Xor(s.shiftPressed, s.shiftLockActive) THEN LEVEL_2
    ELSE LEVEL_1

\* C1: on every non-injected key-down handled with bypass off, exactly one level is
\* used and it is the documented priority table applied to the state before the
\* event; capsLockActive plays no part, and levels 5 and 6 need supportLevels5and6.
C1_LevelFollowsPriorityTable ==
    [][ (RealKeyDown /\ ~g_state.bypassMode)
            => usedLevel' = {DocumentedLevel(g_state)} ]_vars

\* level 5 wins over level 4 with both locks armed and neither shift nor Mod4 held
C1_Level5WithLocksArmed ==
    /\ ev.kind = "key" /\ ev.key = "A" /\ ~ev.up /\ ~ev.injected
    /\ usedLevel = {LEVEL_5}
    /\ g_state.shiftLockActive /\ ~g_state.shiftPressed
    /\ g_state.level4LockActive /\ ~g_state.mod4Pressed
    /\ g_state.mod3Pressed

\* C2: in every reachable state each combined flag is the OR of its two side
\* flags, also right after a release that synthesized Return, Escape or Tab.
C2_CombinedFlagsAreOrOfSides ==
    /\ g_state.shiftPressed = (g_state.shiftLeftPressed \/ g_state.shiftRightPressed)
    /\ g_state.mod3Pressed = (g_state.level3modLeftPressed \/ g_state.level3modRightPressed)
    /\ g_state.mod4Pressed = (g_state.level4modLeftPressed \/ g_state.level4modRightPressed)

\* C3: an injected event is passed to the next hook, synthesizes nothing and
\* changes no field of the state, with bypass on or off, Shift+Pause included.
C3_InjectedIsPassedThrough ==
    [][ (HookStep /\ ev'.injected)
            => (ret' = Pass /\ out' = NoOutput /\ g_state' = g_state) ]_vars

\* an injected Pause key-down arrived while shift was pressed and bypass was off
C3_InjectedPauseWithShift ==
    /\ ev.kind = "key" /\ ev.injected /\ ev.key = "Pause" /\ ~ev.up
    /\ g_state.shiftPressed /\ ~g_state.bypassMode
    /\ ret = Pass /\ out = NoOutput

LetterKeys == {"A"}

\* the characters the layout tables hold for a key, over all levels
LayoutCharsOf(key) ==
    { g_layout.levels[lv][KeyTable[key].scanCode] : lv \in Levels } \ {0}

\* the output is one character of the key's table entries, sent as Unicode or as
\* a key stroke carrying the key's scan code
SendsLayoutChar(o, key) ==
    \/ \E c \in LayoutCharsOf(key) : o = << sendUnicodeChar(c) >>
    \/ \E i \in DOMAIN o :
          /\ o[i].api = "keybd_event" /\ o[i].scan = KeyTable[key].scanCode
          /\ \A j \in DOMAIN o : o[j].api = "keybd_event"

\* C4: Shift+Pause flips bypass; while bypass is on a letter key-down is passed
\* through with nothing synthesized; once the gesture has switched bypass off
\* again a letter key-down is swallowed and replaced by a character of the tables.
C4_BypassGestureSwitchesRemapping ==
    [][ /\ (RealKeyDown /\ ev'.key = "Pause" /\ g_state.shiftPressed)
            => (g_state'.bypassMode = ~g_state.bypassMode /\ ret' = Swallow)
        /\ (RealKeyDown /\ ev'.key \in LetterKeys /\ g_state.bypassMode)
            => (ret' = Pass /\ out' = NoOutput /\ g_state' = g_state)
        /\ (RealKeyDown /\ ev'.key \in LetterKeys /\ ~g_state.bypassMode)
            => (ret' = Swallow /\ SendsLayoutChar(out', ev'.key)) ]_vars

\* after the second Shift+Pause the letter key is remapped again (shift still held)
C4_RemappedAfterSecondGesture ==
    /\ gestures = 2 /\ ~g_state.bypassMode
    /\ ev.kind = "key" /\ ev.key = "A" /\ ~ev.up /\ ~ev.injected
    /\ ret = Swallow
    /\ out = << sendUnicodeChar(g_layout.levels[LEVEL_2][KeyTable["A"].scanCode]) >>

tapEnabled(r) ==
    CASE r = "m3L" -> g_settings.capsLockAsEscape
      [] r = "m3R" -> g_settings.mod3RAsReturn
      [] OTHER     -> g_settings.mod4LAsTab

tapSubstitute(r) ==
    CASE r = "m3L" -> VK_ESCAPE [] r = "m3R" -> VK_RETURN [] OTHER -> VK_TAB

soleFlag(s, r) ==
    CASE r = "m3L" -> s.level3modLeftAndNoOtherKeyPressed
      [] r = "m3R" -> s.level3modRightAndNoOtherKeyPressed
      [] OTHER     -> s.level4modLeftAndNoOtherKeyPressed

LockFlags(s) == << s.shiftLockActive, s.capsLockActive, s.level4LockActive >>

\* the release of tappable modifier r, pressed alone, under its setting
TapRelease(r) ==
    /\ RealKeyUp /\ ~g_state.bypassMode
    /\ KeyTable[ev'.key].scanCode = roleScanCode(r)
    /\ tapEnabled(r) /\ tap[r] = "alone"

\* the release is swallowed and emits the own key-up, then the substitute
TapResult(r) ==
    /\ ret' = Swallow
    /\ out' = << keybd_event(KeyTable[ev'.key].vkCode, 0, KEYEVENTF_KEYUP),
                 keybd_event(tapSubstitute(r), 0, KEYEVENTF_EXTENDEDKEY) >>
    /\ ~soleFlag(g_state', r)
    /\ LockFlags(g_state') = LockFlags(g_state)

\* left Mod4 is released while right Mod4 is down and the level 4 lock is enabled
Level4LockTakesTheRelease(r) ==
    r = "m4L" /\ g_state.level4modRightPressed /\ g_settings.level4LockEnabled

\* C5 as stated: a tappable modifier pressed and released with no key-down in
\* between is swallowed, emits its own key-up and then the substitute key, clears
\* the sole-key flag and toggles no lock.
C5_TapEmitsSubstitute ==
    [][ \A r \in TapRoles : TapRelease(r) => TapResult(r) ]_vars

\* C5 amended: the same, except that a left Mod4 released while right Mod4 is down
\* with level4LockEnabled toggles the level 4 lock and emits nothing.
C5_TapEmitsSubstituteUnlessLevel4Lock ==
    [][ \A r \in TapRoles :
          TapRelease(r) =>
            IF Level4LockTakesTheRelease(r)
            THEN /\ ret' = Swallow /\ out' = NoOutput
                 /\ g_state'.level4LockActive = ~g_state.level4LockActive
            ELSE TapResult(r) ]_vars

\* left Mod4 tapped alone under mod4LAsTab and level4LockEnabled: Tab was sent
C5_TabSentForMod4Tap ==
    /\ ev.kind = "key" /\ ev.key = "Less" /\ ev.up /\ ~ev.injected
    /\ g_settings.mod4LAsTab /\ g_settings.level4LockEnabled
    /\ SentKeys(out) = << KeyTable["Less"].vkCode, VK_TAB >>
    /\ ~g_state.level4modLeftAndNoOtherKeyPressed

\* C6: when another key went down (not injected) between a tappable modifier's
\* key-down and its key-up, the key-up emits no Return, Escape or Tab.
C6_OtherKeyDownDisarmsTap ==
    [][ \A r \in TapRoles :
          (RealKeyUp /\ KeyTable[ev'.key].scanCode = roleScanCode(r) /\ tap[r] = "other")
            => ~EmitsSubstitute(out') ]_vars

\* what the shift gesture does to the two shift-driven locks, as configured
ConfiguredToggle(s) ==
    IF g_settings.shiftLockEnabled THEN << ~s.shiftLockActive, s.capsLockActive >>
    ELSE IF g_settings.capsLockEnabled THEN << s.shiftLockActive, ~s.capsLockActive >>
    ELSE << s.shiftLockActive, s.capsLockActive >>

\* C7: releasing a held shift key while the other one is held toggles the
\* configured lock once, whichever of the two it is; the release of the remaining
\* shift key and every shift key-down leave both locks alone.
C7_ShiftGestureTogglesOnce ==
    [][ \A k \in {"LShift", "RShift"} :
          /\ (RealKeyUp /\ ev'.key = k /\ k \in held /\ ~g_state.bypassMode)
               => << g_state'.shiftLockActive, g_state'.capsLockActive >>
                    = IF OtherShift(k) \in held
                      THEN ConfiguredToggle(g_state)
                      ELSE << g_state.shiftLockActive, g_state.capsLockActive >>
          /\ (RealKeyDown /\ ev'.key = k)
               => << g_state'.shiftLockActive, g_state'.capsLockActive >>
                    = << g_state.shiftLockActive, g_state.capsLockActive >> ]_vars

\* the right shift key was released first and the second gesture disarmed caps lock
C7_CapsLockDisarmedByRightRelease ==
    /\ ev.kind = "key" /\ ev.key = "RShift" /\ ev.up /\ ~ev.injected
    /\ "LShift" \in held
    /\ g_settings.capsLockEnabled /\ ~g_state.capsLockActive

\* C8: with level4LockEnabled, releasing a held Mod4 key while the other one is
\* held toggles level4LockActive once, left or right; the release of the remaining
\* Mod4 key does not; with level4LockEnabled off level4LockActive never changes.
C8_Mod4GestureTogglesOnce ==
    [][ /\ \A k \in {"Less", "RAlt"} :
             (RealKeyUp /\ ev'.key = k /\ k \in held /\ ~g_state.bypassMode)
               => g_state'.level4LockActive =
                    IF OtherMod4(k) \in held /\ g_settings.level4LockEnabled
                    THEN ~g_state.level4LockActive
                    ELSE g_state.level4LockActive
        /\ ~g_settings.level4LockEnabled
             => g_state'.level4LockActive = g_state.level4LockActive ]_vars

\* the right Mod4 key was released while the left one was held: the lock is armed
C8_LockArmedByRightRelease ==
    /\ ev.kind = "key" /\ ev.key = "RAlt" /\ ev.up /\ ~ev.injected
    /\ "Less" \in held
    /\ g_state.level4LockActive /\ g_settings.level4LockEnabled

\* C9: the three lock flags change only while a non-injected key-up is handled
\* with bypass off: not on key-down, not on injected events, not under bypass and
\* not when bypass is toggled.
C9_LocksChangeOnlyOnKeyUp ==
    [][ LockFlags(g_state') # LockFlags(g_state)
            => (RealKeyUp /\ ~g_state.bypassMode) ]_vars

\* a shift release with the other shift held was handled under bypass and left
\* the enabled shift lock disarmed
C9_ReleaseUnderBypassLeavesLock ==
    /\ ev.kind = "key" /\ ev.key = "RShift" /\ ev.up /\ ~ev.injected
    /\ "LShift" \in held
    /\ g_state.bypassMode /\ g_state.shiftLeftPressed /\ g_state.shiftRightPressed
    /\ g_settings.shiftLockEnabled /\ ~g_state.shiftLockActive
    /\ g_state.level4LockActive

\* C10: shiftLockActive and capsLockActive are never both true.
C10_LocksMutuallyExclusive ==
    ~(g_state.shiftLockActive /\ g_state.capsLockActive)

\* caps lock is armed under a record that asked for both locks before sanitize
C10_CapsLockArmed ==
    /\ g_state.capsLockActive /\ ~g_state.shiftLockActive
    /\ g_settings.capsLockEnabled /\ ~g_settings.shiftLockEnabled

----------------------------------------------------------------------------
\* Table lookup (C11, C12)

\* the pressed flags of the modifiers and the three locks
ModifierAndLockFlags(s) ==
    << s.shiftPressed, s.shiftLeftPressed, s.shiftRightPressed,
       s.mod3Pressed, s.level3modLeftPressed, s.level3modRightPressed,
       s.mod4Pressed, s.level4modLeftPressed, s.level4modRightPressed,
       s.ctrlLeftPressed, s.ctrlRightPressed, s.altLeftPressed,
       s.winLeftPressed, s.winRightPressed,
       s.shiftLockActive, s.capsLockActive, s.level4LockActive >>

\* the slots a level treats specially instead of reading its table
SpecialCaseSlots(lv) ==
    CASE lv = LEVEL_2 -> {27, 41}
      [] lv = LEVEL_3 -> {13, 20, 27} \cup (IF g_layout.is_kou_or_vue THEN {31, 48} ELSE {})
      [] lv = LEVEL_4 -> {13, 27, 41} \cup {sc \in Slots : g_layout.level4_specials[sc] # 0}
      [] OTHER -> {}

\* slot sc is empty at the level state s resolves to, and that level has no special case for it
EmptySlot(s, sc) ==
    /\ sc \in Slots
    /\ g_layout.levels[DocumentedLevel(s)][sc] = 0
    /\ sc \notin SpecialCaseSlots(DocumentedLevel(s))

\* the hook left the event alone
PassedThroughUnmodified(r, s) ==
    /\ r.ret = Pass /\ r.out = NoOutput
    /\ ModifierAndLockFlags(r.st) = ModifierAndLockFlags(s)

\* the virtual keys a slot can arrive with, by the classes the hook tells apart:
\* an ordinary key, a digit key, a numeric keypad key
OrdinaryVkCodes == {65, 49, 103}

SlotKeyDown(sc, vk) == [scanCode |-> sc, vkCode |-> vk, flags |-> 0]

LookupCase(s, keyInfo) ==
    /\ ~s.bypassMode
    /\ ~isModifierKey(keyInfo)
    /\ ~(keyInfo.vkCode >= 96 /\ keyInfo.vkCode <= 111)
    /\ ~(g_settings.qwertzForShortcuts /\ isSystemKeyPressed(s))
    /\ ~s.capsLockActive

\* slot sc has an entry at the level state s resolves to and no special case there
MappedSlot(s, sc) ==
    /\ sc \in Slots
    /\ g_layout.levels[DocumentedLevel(s)][sc] # 0
    /\ sc \notin SpecialCaseSlots(DocumentedLevel(s))

\* the step handed character c to the emitter: what it sent is what sendChar sends for c
EmitterGot(c) ==
    \E env \in ev'.host : out' = sendChar(g_state, c, keyInfoOf(ev'), env.vkKeyScan)

NoModifierOrLock(s) == \A i \in 1..17 : ~ModifierAndLockFlags(s)[i]

OnlyMod3Held(s) ==
    /\ s.mod3Pressed
    /\ ~s.shiftPressed /\ ~s.mod4Pressed
    /\ ~s.shiftLockActive /\ ~s.capsLockActive /\ ~s.level4LockActive
    /\ ~isSystemKeyPressed(s)

\* C12: a non-injected key-down the table lookup is responsible for, on a slot with
\* an entry and no special case at the resolved level L, is swallowed and the
\* emitter is given layout[L][scanCode]; under neo slot 30 gives 'u' (117) with
\* nothing held and the level-3 entry of slot 30, which is not 'u', with Mod3 held.
C12_MappedSlotSendsTableEntry ==
    [][ /\ ( /\ RealKeyDown
              /\ LookupCase(g_state, keyInfoOf(ev'))
              /\ MappedSlot(g_state, keyInfoOf(ev').scanCode) )
            => ( /\ ret' = Swallow
                 /\ EmitterGot(g_layout.levels[DocumentedLevel(g_state)]
                                              [keyInfoOf(ev').scanCode]) )
        /\ ( /\ RealKeyDown /\ ~g_state.bypassMode
              /\ g_settings.layout = "neo" /\ keyInfoOf(ev').scanCode = 30
              /\ NoModifierOrLock(g_state) )
            => (ret' = Swallow /\ EmitterGot(117))
        /\ ( /\ RealKeyDown /\ ~g_state.bypassMode
              /\ g_settings.layout = "neo" /\ keyInfoOf(ev').scanCode = 30
              /\ OnlyMod3Held(g_state) )
            => ( /\ ret' = Swallow
                 /\ EmitterGot(g_layout.levels[LEVEL_3][30])
                 /\ g_layout.levels[LEVEL_3][30] # 117 ) ]_vars

\* under neo, slot 30 went down with Mod3 held and its level-3 entry was sent as Unicode
C12_Level3EntryOfSlot30Sent ==
    /\ ev.kind = "key" /\ ev.key = "A" /\ ~ev.up /\ ~ev.injected
    /\ g_settings.layout = "neo" /\ OnlyMod3Held(g_state) /\ ~g_state.bypassMode
    /\ ret = Swallow
    /\ out = << sendUnicodeChar(g_layout.levels[LEVEL_3][30]) >>

----------------------------------------------------------------------------
\* The emitter (C13, C14, C15)

\* the step called sendChar: a real key-down of a non-modifier key was swallowed,
\* and not by Shift+Pause nor by the level-4 table of special keys
EmitterCalled ==
    /\ RealKeyDown
    /\ ~isModifierKey(keyInfoOf(ev'))
    /\ ret' = Swallow
    /\ ~isBypassCombo(g_state, keyInfoOf(ev'), TRUE)
    /\ ~( /\ DocumentedLevel(g_state) = LEVEL_4
          /\ keyInfoOf(ev').scanCode \notin {13, 27, 41}
          /\ g_layout.level4_specials[keyInfoOf(ev').scanCode] # 0 )

\* what VkKeyScanEx answered in the step
ScanResult == (CHOOSE env \in ev'.host : TRUE).vkKeyScan

\* the documented condition for direct Unicode input
UnicodeCase(s, keyInfo, keyScanResult) ==
    \/ keyScanResult = -1
    \/ s.shiftLockActive \/ s.capsLockActive \/ s.level4LockActive
    \/ keyInfo.vkCode \in 48..57

IsUnicodeEvent(e) == e.api = "SendInput" /\ e.flags = KEYEVENTF_UNICODE

\* the space key-down the level-3 special cases send after the emitter has returned
TrailingSpace == keybd_event(VK_SPACE, 0, 0)

\* C13: the emitter sends one direct Unicode event and no key stroke exactly when
\* the reverse lookup fails, a lock is active or the original key is a digit key;
\* in every other case it sends key strokes only.
C13_UnicodeExactlyWhenDocumented ==
    [][ EmitterCalled =>
          IF UnicodeCase(g_state, keyInfoOf(ev'), ScanResult)
          THEN /\ Len(out') >= 1 /\ IsUnicodeEvent(out'[1])
               /\ \A i \in 2..Len(out') : out'[i] = TrailingSpace
          ELSE /\ \A i \in 1..Len(out') : out'[i].api = "keybd_event"
               /\ \E i \in 1..Len(out') :
                     /\ out'[i].vk = ScanResult % 256
                     /\ out'[i].scan = keyInfoOf(ev').scanCode ]_vars

\* a letter went down under shift lock while VkKeyScanEx knew a key for it, and a
\* Unicode event was sent
C13_UnicodeUnderShiftLock ==
    /\ ev.kind = "key" /\ ev.key = "A" /\ ~ev.up /\ ~ev.injected
    /\ g_state.shiftLockActive
    /\ \E env \in ev.host : env.vkKeyScan # -1
    /\ Len(out) = 1 /\ IsUnicodeEvent(out[1])

\* the emitter's own modifier key strokes: scan code 0, one of its four modifier keys
IsEmitterModifier(e) ==
    /\ e.api = "keybd_event" /\ e.scan = 0
    /\ e.vk \in {VK_RMENU, VK_CONTROL, VK_MENU, VK_SHIFT}

ModifierDowns(o) ==
    SelectSeq(o, LAMBDA e : IsEmitterModifier(e) /\ ~HasFlag(e.flags, KEYEVENTF_KEYUP))
ModifierUps(o) ==
    SelectSeq(o, LAMBDA e : IsEmitterModifier(e) /\ HasFlag(e.flags, KEYEVENTF_KEYUP))

Reverse(q) == [i \in 1..Len(q) |-> q[Len(q) + 1 - i]]
VksOf(q) == [i \in 1..Len(q) |-> q[i].vk]

\* C14: on the virtual-key path the modifier key-ups are the modifier key-downs in
\* reverse order.
C14_ModifiersReleasedInReverseOrder ==
    [][ (EmitterCalled /\ ~UnicodeCase(g_state, keyInfoOf(ev'), ScanResult))
            => VksOf(ModifierUps(out')) = Reverse(VksOf(ModifierDowns(out'))) ]_vars

\* C15: on the virtual-key path the target virtual key is pressed and released,
\* both with the original scan code, after the modifier key-downs and before the
\* modifier key-ups.
C15_TargetKeyPressedAndReleased ==
    [][ (EmitterCalled /\ ~UnicodeCase(g_state, keyInfoOf(ev'), ScanResult))
            => \E i, j \in 1..Len(out') :
                 /\ i < j
                 /\ out'[i].vk = ScanResult % 256 /\ out'[j].vk = ScanResult % 256
                 /\ out'[i].scan = keyInfoOf(ev').scanCode
                 /\ out'[j].scan = keyInfoOf(ev').scanCode
                 /\ ~HasFlag(out'[i].flags, KEYEVENTF_KEYUP)
                 /\ HasFlag(out'[j].flags, KEYEVENTF_KEYUP)
                 /\ \A k \in 1..Len(out') :
                       IsEmitterModifier(out'[k]) =>
                          IF HasFlag(out'[k].flags, KEYEVENTF_KEYUP) THEN k > j ELSE k < i ]_vars

----------------------------------------------------------------------------
\* The two writers of the bypass flag (C16)

\* the step completes a toggle of the shell thread or of the hook thread
ToggleCompletes ==
    \/ (winMain.pc = "toggleBypassMode" /\ winMain'.pc = "loop")
    \/ (hookThread.pc = "toggleBypassMode" /\ hookThread'.pc = "loop")

\* C16: the menu toggle and the Shift+Pause toggle are serialized: in every
\* interleaving each toggle takes effect, that is, the step that completes it
\* leaves the flag the opposite of what it was just before, so two overlapping
\* toggles leave the flag as it was before them and no update is lost.
C16_EveryToggleTakesEffect ==
    [][ ToggleCompletes => g_state'.bypassMode = ~g_state.bypassMode ]_vars

----------------------------------------------------------------------------
\* Start-up (C17, C19, C20)

\* the hook thread is past its start-up code and no hook is installed
HookInstallationFailed ==
    /\ hookThread.pc \in {"loop", "returned"}
    /\ hookThread.keyhook # "installed"

\* C17: when installing the hook has failed (no module handle, or SetWindowsHookEx
\* answered null), the program does not go on running: neither thread sits in its
\* message loop.
C17_NoMessageLoopWithoutHook ==
    HookInstallationFailed => (winMain.pc # "loop" /\ hookThread.pc # "loop")

\* the scan codes sanitize is documented to derive from the flags
DerivedScanCodes(s) ==
    [ scanCodeMod3L |-> 58,
      scanCodeMod3R |-> IF s.quoteAsMod3R THEN 40 ELSE IF s.returnAsMod3R THEN 28 ELSE 43,
      scanCodeMod4L |-> IF s.tabAsMod4L THEN 15 ELSE 86 ]

\* sanitize was the last thing to touch g_settings
Sanitized == winMain.pc # "sanitize"

\* C19: whenever the settings have changed and sanitize has run, the three scan
\* codes are the ones the current flags determine, whatever the flags were before.
C19_ScanCodesFollowTheFlags ==
    Sanitized =>
        /\ g_settings.scanCodeMod3L = DerivedScanCodes(g_settings).scanCodeMod3L
        /\ g_settings.scanCodeMod3R = DerivedScanCodes(g_settings).scanCodeMod3R
        /\ g_settings.scanCodeMod4L = DerivedScanCodes(g_settings).scanCodeMod4L

\* C20: after sanitize, capsLockEnabled and shiftLockEnabled are not both set, the
\* two swap flags are not both set, caps lock and the wider swap are the ones that
\* stay, and a second sanitize changes nothing.
C20_SanitizeMakesFlagsExclusive ==
    /\ Sanitized =>
          /\ ~(g_settings.capsLockEnabled /\ g_settings.shiftLockEnabled)
          /\ ~(g_settings.swapLeftCtrlAndLeftAlt /\ g_settings.swapLeftCtrlLeftAltAndLeftWin)
          /\ sanitize(g_settings) = g_settings
    /\ (winMain.pc = "readArguments" /\ boot.ini # {}) =>
          \A f \in boot.ini :
             /\ g_settings.capsLockEnabled = f.capsLockEnabled
             /\ g_settings.swapLeftCtrlLeftAltAndLeftWin = f.swapLeftCtrlLeftAltAndLeftWin

\* settings.ini set all four flags, the command line was empty, and sanitize kept
\* caps lock and the wider swap
C20_BothPairsSetInIni ==
    /\ winMain.pc = "CreateThread" /\ boot.argv = << >>
    /\ \E f \in boot.ini :
          /\ f.capsLockEnabled /\ f.shiftLockEnabled
          /\ f.swapLeftCtrlAndLeftAlt /\ f.swapLeftCtrlLeftAltAndLeftWin
    /\ g_settings.capsLockEnabled /\ ~g_settings.shiftLockEnabled
    /\ g_settings.swapLeftCtrlLeftAltAndLeftWin /\ ~g_settings.swapLeftCtrlAndLeftAlt

----------------------------------------------------------------------------
\* Exit (C18)

\* C18: once the exit entry point has run and the process has ended, both message
\* loops have stopped - the hook thread's own loop too, by returning from
\* hookThreadMain - and UnhookWindowsHookEx has removed the hook.
C18_HookUninstalledBeforeProcessEnds ==
    winMain.pc = "returned" =>
        (hookThread.pc = "returned" /\ hookThread.keyhook = "removed")
----------------------------------------------------------------------------
\* Layout construction (C21, C28)

\* C21: when quoteAsMod3R is true, in the layout built for any variant the entry
\* of scan code 43 equals the entry of scan code 40 on each of the six levels, and
\* a key-down of the hash key the table lookup is responsible for sends the quote
\* key's entry of the resolved level.
C21_HashEntryEqualsQuoteEntry ==
    /\ [](g_settings.quoteAsMod3R =>
            \A lv \in Levels : g_layout.levels[lv][43] = g_layout.levels[lv][40])
    /\ [][ ( /\ RealKeyDown /\ ev'.key = "Hash"
              /\ g_settings.quoteAsMod3R
              /\ LookupCase(g_state, keyInfoOf(ev'))
              /\ g_layout.levels[DocumentedLevel(g_state)][40] # 0 )
            => ( /\ ret' = Swallow
                 /\ EmitterGot(g_layout.levels[DocumentedLevel(g_state)][40]) ) ]_vars

\* under bone with quoteAsMod3R the hash key went down with Mod3 held and the
\* level-3 entry of the quote key was sent
C21_HashSendsQuoteEntryAtLevel3 ==
    /\ ev.kind = "key" /\ ev.key = "Hash" /\ ~ev.up /\ ~ev.injected
    /\ g_settings.quoteAsMod3R /\ g_settings.layout = "bone"
    /\ usedLevel = {LEVEL_3}
    /\ g_layout.levels[LEVEL_3][40] # 0
    /\ out = << sendUnicodeChar(g_layout.levels[LEVEL_3][40]) >>

\* C28: for a layout identifier that is none of the seven variants buildLayout
\* returns exactly what it returns for neo: the same six level tables, is_kou_or_vue
\* false and the action table in the non-kou order; the keys behave accordingly.
C28_UnknownLayoutIsNeo ==
    /\ [](g_settings.layout \notin LayoutNames =>
            /\ g_layout = BuiltLayouts["neo"][g_settings.quoteAsMod3R]
            /\ ~g_layout.is_kou_or_vue
            /\ g_layout.levels[LEVEL_1][30] = 117
            /\ g_layout.level4_specials[17] = VK_BACK
            /\ g_layout.level4_specials[19] = VK_DELETE
            /\ g_layout.level4_specials[20] = VK_NEXT
            /\ g_layout.level4_specials[44] = VK_ESCAPE
            /\ g_layout.level4_specials[46] = VK_INSERT
            /\ g_layout.level4_specials[47] = VK_RETURN)
    /\ [][ ( /\ RealKeyDown /\ ev'.key = "T"
              /\ g_settings.layout \notin LayoutNames
              /\ DocumentedLevel(g_state) = LEVEL_4 )
            => ( /\ ret' = Swallow
                 /\ out' = << keybd_event(VK_NEXT, 0, KEYEVENTF_EXTENDEDKEY) >> ) ]_vars

\* with the empty layout name the key of slot 20 went down at level 4 and neo's
\* action for it (page down) was sent
C28_EmptyNameSendsNeoAction ==
    /\ ev.kind = "key" /\ ev.key = "T" /\ ~ev.up /\ ~ev.injected
    /\ g_settings.layout = ""
    /\ usedLevel = {LEVEL_4}
    /\ out = << keybd_event(VK_NEXT, 0, KEYEVENTF_EXTENDEDKEY) >>

----------------------------------------------------------------------------
\* Modifier key-downs and key-ups (C22, C23, C24)

\* the pressed flags a level modifier's key-down sets, read in state s
ModifierFlagsSet(s, keyInfo) ==
    IF isShift(keyInfo)
    THEN /\ s.shiftPressed
         /\ IF keyInfo.vkCode = VK_RSHIFT THEN s.shiftRightPressed ELSE s.shiftLeftPressed
    ELSE IF isMod3(keyInfo)
    THEN /\ s.mod3Pressed
         /\ IF keyInfo.scanCode = g_settings.scanCodeMod3R
            THEN s.level3modRightPressed /\ s.level3modRightAndNoOtherKeyPressed
            ELSE s.level3modLeftPressed /\ s.level3modLeftAndNoOtherKeyPressed
    ELSE /\ s.mod4Pressed
         /\ IF keyInfo.scanCode = g_settings.scanCodeMod4L
            THEN s.level4modLeftPressed /\ s.level4modLeftAndNoOtherKeyPressed
            ELSE s.level4modRightPressed

\* what the key-down of a level modifier synthesizes: a shift key its own key-down,
\* the right Mod4 key (AltGr) the release of right alt, the others nothing
ModifierKeyDownOutput(keyInfo) ==
    IF isShift(keyInfo)
    THEN << keybd_event(IF keyInfo.vkCode = VK_RSHIFT THEN VK_RSHIFT ELSE VK_LSHIFT, 0, 0) >>
    ELSE IF ~isMod3(keyInfo) /\ keyInfo.scanCode # g_settings.scanCodeMod4L
    THEN << keybd_event(VK_RMENU, 0, KEYEVENTF_KEYUP) >>
    ELSE NoOutput

\* C22 as stated: a non-injected key-down of a shift, Mod3 or Mod4 key with bypass
\* off sets the modifier's flags, is swallowed and synthesizes no input event.
C22_ModifierKeyDownEmitsNothing ==
    [][ ( /\ RealKeyDown /\ ~g_state.bypassMode
          /\ isLevelModifier(keyInfoOf(ev')) )
            => ( /\ ret' = Swallow
                 /\ ModifierFlagsSet(g_state', keyInfoOf(ev'))
                 /\ out' = NoOutput ) ]_vars

\* C22 as amended: such a key-down sets the modifier's flags and is swallowed; a
\* Mod3 key and the left Mod4 key synthesize nothing, a shift key synthesizes the
\* key-down of the same shift key, the right Mod4 key the key-up of right alt.
C22_ModifierKeyDownEmitsOnlyItsOwnKey ==
    [][ ( /\ RealKeyDown /\ ~g_state.bypassMode
          /\ isLevelModifier(keyInfoOf(ev')) )
            => ( /\ ret' = Swallow
                 /\ ModifierFlagsSet(g_state', keyInfoOf(ev'))
                 /\ out' = ModifierKeyDownOutput(keyInfoOf(ev'))
                 /\ (isMod3(keyInfoOf(ev')) => out' = NoOutput) ) ]_vars

\* the right shift key went down and its key-down was synthesized again
C22_RightShiftDownReEmitted ==
    /\ ev.kind = "key" /\ ev.key = "RShift" /\ ~ev.up /\ ~ev.injected
    /\ ret = Swallow /\ g_state.shiftRightPressed
    /\ out = << keybd_event(VK_RSHIFT, 0, 0) >>

\* the physical left ctrl (scan code 29), left alt and left win keys
IsLeftSystemKey(keyInfo) ==
    \/ (keyInfo.vkCode = VK_LCONTROL /\ keyInfo.scanCode = SCANCODE_LCONTROL_KEY)
    \/ keyInfo.vkCode \in {VK_LMENU, VK_LWIN}

\* the relabeling as documented: no swap, the narrow swap, the wide swap
DocumentedRelabel(vk) ==
    IF g_settings.swapLeftCtrlAndLeftAlt
    THEN (CASE vk = VK_LCONTROL -> VK_LMENU [] vk = VK_LMENU -> VK_LCONTROL [] OTHER -> VK_LWIN)
    ELSE IF g_settings.swapLeftCtrlLeftAltAndLeftWin
    THEN (CASE vk = VK_LCONTROL -> VK_LWIN [] vk = VK_LMENU -> VK_LCONTROL [] OTHER -> VK_LMENU)
    ELSE vk

\* the pressed flag of a logical left key
PressedFlagOf(s, vk) ==
    CASE vk = VK_LCONTROL -> s.ctrlLeftPressed
      [] vk = VK_LMENU    -> s.altLeftPressed
      [] OTHER            -> s.winLeftPressed

\* the key is relabeled by the swap setting in force
IsSwappedKey(keyInfo) ==
    IsLeftSystemKey(keyInfo) /\ DocumentedRelabel(keyInfo.vkCode) # keyInfo.vkCode

\* the tappable modifiers with this scan code whose release is a tap in state s
TapArmedRoles(s, keyInfo) ==
    { r \in TapRoles : /\ keyInfo.scanCode = roleScanCode(r)
                       /\ tapEnabled(r) /\ soleFlag(s, r) }

\* what the key-up of a key synthesizes in state s
KeyUpOutput(s, keyInfo) ==
    IF isShift(keyInfo)
    THEN << IF keyInfo.vkCode = VK_RSHIFT
            THEN keybd_event(VK_RSHIFT, 54, KEYEVENTF_KEYUP)
            ELSE keybd_event(VK_LSHIFT, 42, KEYEVENTF_KEYUP) >>
    ELSE IF isLevelModifier(keyInfo)
    THEN IF \E r \in TapArmedRoles(s, keyInfo) : ~Level4LockTakesTheRelease(r)
         THEN << keybd_event(keyInfo.vkCode, 0, KEYEVENTF_KEYUP),
                 keybd_event(tapSubstitute(CHOOSE r \in TapArmedRoles(s, keyInfo) : TRUE),
                             0, KEYEVENTF_EXTENDEDKEY) >>
         ELSE NoOutput
    ELSE IF IsLeftSystemKey(keyInfo)
    THEN << keybd_event(DocumentedRelabel(keyInfo.vkCode), 0, KEYEVENTF_KEYUP) >>
    ELSE NoOutput

\* C23 as stated: a non-injected key-up handled with bypass off that is neither the
\* key-up of a swapped ctrl/alt/win key nor of a tap-armed modifier is passed
\* through and synthesizes nothing, the key-ups of shift, Mod3, Mod4 and the
\* unswapped left ctrl/alt/win keys included.
C23_KeyUpIsPassedThrough ==
    [][ ( /\ RealKeyUp /\ ~g_state.bypassMode
          /\ ~IsSwappedKey(keyInfoOf(ev'))
          /\ TapArmedRoles(g_state, keyInfoOf(ev')) = {} )
            => (ret' = Pass /\ out' = NoOutput) ]_vars

\* C23 as amended: such a key-up is passed through with nothing synthesized exactly
\* when the key is none of shift, Mod3, Mod4, left ctrl, left alt, left win; the
\* key-up of each of these is swallowed: shift synthesizes the release of the same
\* shift key, left ctrl/alt/win the release of the relabeled key (swapped or not),
\* Mod3 and Mod4 nothing unless the release is a tap.
C23_ModifierKeyUpIsSwallowed ==
    [][ ( RealKeyUp /\ ~g_state.bypassMode )
            => ( /\ ret' = IF isLevelModifier(keyInfoOf(ev')) \/ IsLeftSystemKey(keyInfoOf(ev'))
                           THEN Swallow ELSE Pass
                 /\ out' = KeyUpOutput(g_state, keyInfoOf(ev')) ) ]_vars

\* the unswapped left ctrl key was released: swallowed, its release synthesized
C23_UnswappedCtrlUpSwallowed ==
    /\ ev.kind = "key" /\ ev.key = "LCtrl" /\ ev.up /\ ~ev.injected
    /\ ~g_settings.swapLeftCtrlAndLeftAlt /\ ~g_settings.swapLeftCtrlLeftAltAndLeftWin
    /\ ret = Swallow
    /\ out = << keybd_event(VK_LCONTROL, 0, KEYEVENTF_KEYUP) >>

\* the other pressed flags of the left ctrl/alt/win keys stay what they were
OtherLeftFlagsKept(s, t, vk) ==
    \A k \in {VK_LCONTROL, VK_LMENU, VK_LWIN} \ {vk} : PressedFlagOf(t, k) = PressedFlagOf(s, k)

\* C24: under sanitized settings the relabeling of left ctrl, left alt and left win
\* is a permutation (identity, narrow swap, wide swap as documented); the key-down
\* synthesizes the press of the relabeled key and sets its flag, the key-up
\* synthesizes the release of the same key and clears the same flag.
C24_RelabelingIsPermutation ==
    /\ []( /\ ~(g_settings.swapLeftCtrlAndLeftAlt /\ g_settings.swapLeftCtrlLeftAltAndLeftWin)
           /\ { DocumentedRelabel(vk) : vk \in {VK_LCONTROL, VK_LMENU, VK_LWIN} }
                = {VK_LCONTROL, VK_LMENU, VK_LWIN} )
    /\ [][ ( /\ HookStep /\ ~ev'.injected /\ ~g_state.bypassMode
              /\ IsLeftSystemKey(keyInfoOf(ev')) )
            => ( /\ ret' = Swallow
                 /\ out' = << keybd_event(DocumentedRelabel(keyInfoOf(ev').vkCode), 0,
                                           IF ev'.up THEN KEYEVENTF_KEYUP ELSE 0) >>
                 /\ PressedFlagOf(g_state', DocumentedRelabel(keyInfoOf(ev').vkCode)) = ~ev'.up
                 /\ OtherLeftFlagsKept(g_state, g_state',
                                       DocumentedRelabel(keyInfoOf(ev').vkCode)) ) ]_vars

\* under the wide swap the left win key was released after it was pressed: the
\* release of left alt was synthesized and altLeftPressed is clear again
C24_WideSwapWinReleased ==
    /\ ev.kind = "key" /\ ev.key = "LWin" /\ ev.up /\ ~ev.injected
    /\ g_settings.swapLeftCtrlLeftAltAndLeftWin
    /\ out = << keybd_event(VK_LMENU, 0, KEYEVENTF_KEYUP) >>
    /\ ~g_state.altLeftPressed /\ g_state.ctrlLeftPressed

----------------------------------------------------------------------------
\* Shortcuts, numeric keypad, caps lock (C25, C26, C27)

\* the key-down is one the shortcut rule decides: bypass off, qwertzForShortcuts on,
\* a ctrl, alt or win key tracked as held, not a modifier, not the bypass gesture,
\* no special case or level-4 action of the resolved level
ShortcutCase(s, keyInfo) ==
    /\ ~s.bypassMode
    /\ g_settings.qwertzForShortcuts
    /\ ( \/ s.ctrlLeftPressed \/ s.ctrlRightPressed \/ s.altLeftPressed
         \/ s.winLeftPressed \/ s.winRightPressed )
    /\ ~isModifierKey(keyInfo)
    /\ ~isBypassCombo(s, keyInfo, TRUE)
    /\ keyInfo.scanCode \in Slots
    /\ keyInfo.scanCode \notin SpecialCaseSlots(DocumentedLevel(s))

\* C26: with qwertzForShortcuts enabled and a ctrl, alt or win key tracked as held,
\* a non-injected key-down of a non-modifier key that no earlier rule claims is
\* passed through with nothing synthesized; whenever the hook thread waits for the
\* next event this holds of the key-down of every slot 0..102 at the level in force.
C26_ShortcutsArePassedThrough ==
    /\ [][ ( RealKeyDown /\ ShortcutCase(g_state, keyInfoOf(ev')) )
                => PassedThroughUnmodified([st |-> g_state', out |-> out', ret |-> ret'],
                                           g_state) ]_vars
    /\ [](\A sc \in Slots, vk \in OrdinaryVkCodes :
            ( ev.kind = "idle" /\ ShortcutCase(g_state, SlotKeyDown(sc, vk)) )
                => PassedThroughUnmodified(
                       dispatch(g_state, SlotKeyDown(sc, vk), FALSE, HostAnswer(-1, 0, 0)),
                       g_state))

\* a letter key went down at level 6 while only left alt was tracked as held, and
\* was passed through
C26_LetterPassedWithAltAtLevel6 ==
    /\ ev.kind = "key" /\ ev.key = "A" /\ ~ev.up /\ ~ev.injected
    /\ g_settings.qwertzForShortcuts
    /\ g_state.altLeftPressed
    /\ ~g_state.ctrlLeftPressed /\ ~g_state.ctrlRightPressed
    /\ ~g_state.winLeftPressed /\ ~g_state.winRightPressed
    /\ usedLevel = {LEVEL_6}
    /\ ret = Pass /\ out = NoOutput

\* the alphabetic letters as documented: A-Z, a-z, the umlauts, sharp s, and capitals
DocumentedLetter(c) ==
    \/ c \in 65..90 \/ c \in 97..122
    \/ c \in {228, 246, 252, 223} \/ c \in {196, 214, 220, 7838}

\* the character caps lock makes of slot sc at level lv
CapsLockEntry(lv, sc) ==
    IF lv \in {LEVEL_1, LEVEL_2} /\ DocumentedLetter(g_layout.levels[lv][sc])
    THEN g_layout.levels[IF lv = LEVEL_1 THEN LEVEL_2 ELSE LEVEL_1][sc]
    ELSE g_layout.levels[lv][sc]

\* the key-down is one the table lookup decides while caps lock is active
CapsLockCase(s, keyInfo) ==
    /\ s.capsLockActive /\ ~s.bypassMode
    /\ ~isModifierKey(keyInfo)
    /\ ~isBypassCombo(s, keyInfo, TRUE)
    /\ ~(keyInfo.vkCode >= 96 /\ keyInfo.vkCode <= 111)
    /\ ~(g_settings.qwertzForShortcuts /\ isSystemKeyPressed(s))
    /\ keyInfo.scanCode \in Slots
    /\ keyInfo.scanCode \notin SpecialCaseSlots(DocumentedLevel(s))

\* character c was sent as a Unicode event and the key swallowed; nothing for c = 0
SentAsUnicode(r, c) ==
    IF c = 0 THEN r.ret = Pass /\ r.out = NoOutput
    ELSE r.ret = Swallow /\ r.out = << sendUnicodeChar(c) >>

\* C25: while capsLockActive is set, a key-down at level 1 or 2 whose entry at that
\* level is a letter sends the entry of the other level of the pair; entries that
\* are no letters and all entries of levels 3 to 6 are sent unchanged.  Under neo
\* slot 30 gives U at level 1 and u at level 2.  Whenever the hook thread waits for
\* the next event this holds of the key-down of every slot 0..102.
C25_CapsLockSwapsLetterLevels ==
    /\ [][ ( RealKeyDown /\ CapsLockCase(g_state, keyInfoOf(ev')) )
                => SentAsUnicode([out |-> out', ret |-> ret'],
                                 CapsLockEntry(DocumentedLevel(g_state),
                                               keyInfoOf(ev').scanCode)) ]_vars
    /\ [][ ( /\ RealKeyDown /\ CapsLockCase(g_state, keyInfoOf(ev'))
              /\ g_settings.layout = "neo" /\ keyInfoOf(ev').scanCode = 30
              /\ DocumentedLevel(g_state) \in {LEVEL_1, LEVEL_2} )
                => out' = << sendUnicodeChar(IF DocumentedLevel(g_state) = LEVEL_1
                                             THEN 85 ELSE 117) >> ]_vars
    /\ [](\A sc \in Slots, vk \in {65, 49} :
            ( ev.kind = "idle" /\ CapsLockCase(g_state, SlotKeyDown(sc, vk)) )
                => SentAsUnicode(
                       dispatch(g_state, SlotKeyDown(sc, vk), FALSE, HostAnswer(65 + 256, 0, 0)),
                       CapsLockEntry(DocumentedLevel(g_state), sc)))

\* with caps lock active and a shift key held the letter key of slot 30 went down
\* and the lower-case letter u was sent
C25_ShiftAndCapsLockGiveLowerCase ==
    /\ ev.kind = "key" /\ ev.key = "A" /\ ~ev.up /\ ~ev.injected
    /\ g_state.capsLockActive /\ g_state.shiftPressed
    /\ usedLevel = {LEVEL_2}
    /\ out = << sendUnicodeChar(117) >>

\* the scan codes of the numeric keypad's keys (/ * 7 8 9 - 4 5 6 + 1 2 3 0 .)
NumpadScanCodes == {53, 55} \cup (71..83)

\* virtual keys of the range 0x60..0x6F: both ends and one in between
NumpadVkCodes == {96, 103, 111}

\* state s with the three lock flags set to a, b, c
WithLocks(s, a, b, c) ==
    [s EXCEPT !.shiftLockActive = a, !.capsLockActive = b, !.level4LockActive = c]

\* an earlier rule claims the key-down by its scan code: the bypass gesture, a
\* level modifier, a special case or level-4 action of the resolved level
ClaimedByScanCode(s, keyInfo) ==
    \/ isBypassCombo(s, keyInfo, TRUE)
    \/ isModifierKey(keyInfo)
    \/ keyInfo.scanCode \in SpecialCaseSlots(DocumentedLevel(s))

\* C27 as stated: a non-injected key-down whose virtual key is in 0x60..0x6F is
\* passed through with nothing synthesized when bypass is off, at every level, for
\* every scan code (the scan codes of the level modifiers left aside) and every
\* modifier and lock state.
C27_NumpadIsAlwaysPassedThrough ==
    /\ [][ ( /\ RealKeyDown /\ ~g_state.bypassMode
              /\ keyInfoOf(ev').vkCode \in 96..111 )
                => (ret' = Pass /\ out' = NoOutput) ]_vars
    /\ []( ( ev.kind = "idle" /\ ~g_state.bypassMode )
            => \A sc \in Slots, vk \in NumpadVkCodes :
                  ~isModifierKey(SlotKeyDown(sc, vk))
                    => PassedThroughUnmodified(
                           dispatch(g_state, SlotKeyDown(sc, vk), FALSE, HostAnswer(-1, 0, 0)),
                           g_state) )

\* C27 as amended: such a key-down is passed through with nothing synthesized
\* unless an earlier rule claims it by its scan code, and then it is swallowed; no
\* scan code of the numeric keypad is claimed by an earlier rule, so with these the
\* key-down is passed through at every level and under every value of the locks.
C27_NumpadIsPassedUnlessClaimed ==
    /\ [][ ( /\ RealKeyDown /\ ~g_state.bypassMode
              /\ keyInfoOf(ev').vkCode \in 96..111 )
                => IF ClaimedByScanCode(g_state, keyInfoOf(ev'))
                   THEN ret' = Swallow
                   ELSE ret' = Pass /\ out' = NoOutput ]_vars
    /\ []( ( ev.kind = "idle" /\ ~g_state.bypassMode )
            => /\ \A sc \in Slots, vk \in NumpadVkCodes :
                    IF ClaimedByScanCode(g_state, SlotKeyDown(sc, vk))
                    THEN dispatch(g_state, SlotKeyDown(sc, vk), FALSE,
                                  HostAnswer(-1, 0, 0)).ret = Swallow
                    ELSE PassedThroughUnmodified(
                             dispatch(g_state, SlotKeyDown(sc, vk), FALSE,
                                      HostAnswer(-1, 0, 0)),
                             g_state)
               /\ \A sc \in NumpadScanCodes, vk \in NumpadVkCodes,
                     a \in BOOLEAN, b \in BOOLEAN, c \in BOOLEAN :
                    /\ ~ClaimedByScanCode(WithLocks(g_state, a, b, c), SlotKeyDown(sc, vk))
                    /\ PassedThroughUnmodified(
                           dispatch(WithLocks(g_state, a, b, c), SlotKeyDown(sc, vk), FALSE,
                                    HostAnswer(-1, 0, 0)),
                           WithLocks(g_state, a, b, c)) )

\* the 7 of the numeric keypad went down at level 4 and was passed through
C27_Numpad7AtLevel4 ==
    /\ ev.kind = "key" /\ ev.key = "Num7" /\ ~ev.up /\ ~ev.injected
    /\ ~g_state.bypassMode
    /\ usedLevel = {LEVEL_4}
    /\ ret = Pass /\ out = NoOutput

----------------------------------------------------------------------------
\* Flags and the keys physically held (C29, C30)

\* no shift, Mod3 or Mod4 key is physically held
NoLevelModifierHeld ==
    \A k \in held : ~isLevelModifier(keyInfoOf(KeyEvent(k, FALSE, FALSE)))

\* a shift key is physically held
ShiftHeld == \E k \in held : isShift(keyInfoOf(KeyEvent(k, FALSE, FALSE)))

\* C29: whenever bypass is off, no lock flag is active and no shift, Mod3 or Mod4
\* key is physically held, the key-down of an ordinary key resolves to level 1,
\* after any sequence of earlier events.
C29_Level1WhenNothingHeld ==
    [][ ( /\ RealKeyDown /\ ~g_state.bypassMode
          /\ ~isModifierKey(keyInfoOf(ev'))
          /\ LockFlags(g_state) = << FALSE, FALSE, FALSE >>
          /\ NoLevelModifierHeld )
            => usedLevel' = {LEVEL_1} ]_vars

\* C30: the hook flips the bypass flag only on a non-injected key-down of scan code
\* 69 that arrives while a shift key is physically held.
C30_BypassFlipsOnlyWithShiftHeld ==
    [][ ( HookStep /\ g_state'.bypassMode # g_state.bypassMode )
            => ( /\ ~ev'.injected /\ ~ev'.up
                 /\ keyInfoOf(ev').scanCode = SCANCODE_PAUSE_KEY
                 /\ ShiftHeld ) ]_vars

----------------------------------------------------------------------------
\* Logical modifiers and the release of their physical key (C31)

\* a key-up of the logical key vk reaches the system with the step just made:
\* synthesized by the hook, or the physical key-up itself passed on
KeyUpReachesSystem(vk) ==
    \/ \E i \in DOMAIN out' : /\ out'[i].api = "keybd_event" /\ out'[i].vk = vk
                              /\ HasFlag(out'[i].flags, KEYEVENTF_KEYUP)
    \/ (ret' = Pass /\ keyInfoOf(ev').vkCode = vk)

\* C31: for every key-down of shift or of left ctrl/alt/win that made the hook emit
\* a logical modifier key-down, the release of that physical key makes a key-up of
\* the same logical key reach the system, under every swap setting and also when
\* bypass is toggled between the press and the release.
C31_ReleaseReachesSystemAsEmitted ==
    [][ ( /\ RealKeyUp
          /\ (isShift(keyInfoOf(ev')) \/ IsLeftSystemKey(keyInfoOf(ev'))) )
            => \A p \in emitted : p[1] = ev'.key => KeyUpReachesSystem(p[2]) ]_vars

----------------------------------------------------------------------------
\* The indices of the table reads (C32)

\* the key-down reached handleLayer4SpecialCases' read of level4_specials
ReadsLevel4Specials(lv, keyInfo) ==
    lv = LEVEL_4 /\ keyInfo.scanCode \notin {13, 27, 41}

\* the key-down reached mapScanCodeToChar: no special case took it, it is not on
\* the numeric keypad and the shortcut rule did not pass it on
ReadsLevelTable(s, lv, keyInfo, env) ==
    /\ ~handleSpecialCases(s, keyInfo, lv, env)[1]
    /\ ~(keyInfo.vkCode >= 96 /\ keyInfo.vkCode <= 111)
    /\ ~(g_settings.qwertzForShortcuts /\ isSystemKeyPressed(s))

\* C32: every read of the six level tables and of the level-4 action table uses
\* an index within 0..102, for every key event the hook can receive, the left-ctrl
\* event with scan code 541 that AltGr generates included.
C32_TableIndexWithinBounds ==
    [][ \A lv \in usedLevel', env \in ev'.host :
          ( /\ RealKeyDown
            /\ \/ ReadsLevel4Specials(lv, keyInfoOf(ev'))
               \/ ReadsLevelTable(g_state', lv, keyInfoOf(ev'), env) )
            => keyInfoOf(ev').scanCode \in Slots ]_vars

----------------------------------------------------------------------------
\* The characters of the special cases (C33)

\* the scan codes for which the special cases of a level send a character
SpecialCharSlots(lv) ==
    CASE lv = LEVEL_2 -> {27, 41}
      [] lv = LEVEL_3 -> {13, 20, 27} \cup (IF g_layout.is_kou_or_vue THEN {31, 48} ELSE {})
      [] lv = LEVEL_4 -> {13, 27, 41}
      [] OTHER -> {}

\* the step sent character c the way the emitter sends it under the host's answer,
\* with or without the space key-down that follows it
SentByEmitter(c) ==
    \E env \in ev'.host :
        \/ out' = sendChar(g_state, c, keyInfoOf(ev'), env.vkKeyScan)
        \/ out' = sendChar(g_state, c, keyInfoOf(ev'), env.vkKeyScan) \o << TrailingSpace >>

\* C33: whenever a special case of level 2, 3 or 4 swallows a key-down and emits a
\* character, that character is the entry of the level's table for the scan code in
\* the selected variant, kou and vou included.
C33_SpecialCaseSendsTableEntry ==
    [][ \A lv \in usedLevel' :
          ( /\ RealKeyDown /\ ev'.host # {} /\ ret' = Swallow
            /\ keyInfoOf(ev').scanCode \in SpecialCharSlots(lv) )
            => SentByEmitter(g_layout.levels[lv][keyInfoOf(ev').scanCode]) ]_vars

====
